---- MODULE Spec2Model ----
(***************************************************************************)
(* A model of judo's interactive control layer: the UTF-8 text editor of   *)
(* the name popups (ui/cursor.rs), the list and item components with their *)
(* selection (ui/components/lists.rs, items.rs) and the application state  *)
(* (app/state.rs) with its event loop, screens and database switch.        *)
(***************************************************************************)
EXTENDS Integers, Sequences, FiniteSets, TLC

VARIABLES
    pc,                \* position of App::run: "draw", "key", "done", "panicked"
    current_screen,    \* App.current_screen
    input_state,       \* App.input_state: current_input (bytes), cursor_pos, is_modifying
    lists_component,   \* App.lists_component: lists (Vec<UIList>), list_state
    config,            \* App.config: default, dbs
    current_db_config, \* App.current_db_config
    pool,              \* App.pool: the connection string the pool is connected to
    selected_db_index, \* App.selected_db_index
    exit,              \* App.exit
    storage,           \* the persisted tables of every database, by connection string
    faults,            \* the number of persistence calls that have failed so far
    last               \* the command handled last: its name, failed call and result

vars == <<pc, current_screen, input_state, lists_component, config,
          current_db_config, pool, selected_db_index, exit, storage, faults, last>>

appvars == <<current_screen, lists_component, config, current_db_config, pool,
             selected_db_index, exit, storage>>

-----------------------------------------------------------------------------
(* The bounds of the model.                                                 *)

\* lists ever created in one database (list ids are 1..MaxLists)
MaxLists == 2
\* items ever created in one database (item ids are 1..MaxItems)
MaxItems == 2
\* rows (lists and items together) in one database
MaxRows == 3
\* persistence calls that fail in one run
MaxFaults == 1
\* characters in the text of the editor
MaxTextLen == 3
\* characters typed into a popup of the whole application
MaxNameLen == 1
\* databases in the registry
MaxDbs == 2
\* rows (lists and items together) over all databases of the whole application
MaxStoredRows == 2
\* databases in the registry when the database screens run alone
MaxRegistered == 3
\* lists, and items, ever created in one database when the placing mutations
\* run alone
MaxPlaced == 3
\* rows (lists and items together) in that database
MaxPlacedRows == 4

-----------------------------------------------------------------------------
(* Option<usize>: None is the empty sequence, Some(i) the one-element one.  *)
None == <<>>
Some(i) == <<i>>
IsSome(o) == o # <<>>
Unwrap(o) == o[1]

Max(a, b) == IF a >= b THEN a ELSE b
Min(a, b) == IF a <= b THEN a ELSE b

-----------------------------------------------------------------------------
(* Text.  A String is its UTF-8 bytes; a byte is <<c, k>>, the k-th byte of *)
(* the encoding of character c.                                             *)

\* The characters typed in the model: one of each UTF-8 width up to 3.
Chars == {"a", "eacute", "euro"}

\* char::len_utf8
len_utf8(c) == CASE c = "a" -> 1 [] c = "eacute" -> 2 [] c = "euro" -> 3

\* the UTF-8 encoding of one character
encode(c) == [k \in 1..len_utf8(c) |-> <<c, k>>]

\* str::chars: decodes the bytes, one character per leading byte
RECURSIVE chars(_)
chars(text) ==
    IF text = <<>> THEN <<>>
    ELSE <<text[1][1]>> \o chars(SubSeq(text, len_utf8(text[1][1]) + 1, Len(text)))

\* String::from_iter / collect of a character sequence
RECURSIVE collect(_)
collect(cs) == IF cs = <<>> THEN <<>> ELSE encode(Head(cs)) \o collect(Tail(cs))

\* str::is_char_boundary
is_char_boundary(text, p) ==
    \/ p = 0
    \/ p = Len(text)
    \/ p > 0 /\ p < Len(text) /\ text[p + 1][2] = 1

\* a prefix length that counts characters instead of bytes
prefix_chars(cs, n) == n

\* chars[..n].iter().map(|c| c.len_utf8()).sum()
RECURSIVE prefix_bytes(_, _)
prefix_bytes(cs, n) == IF n = 0 THEN 0 ELSE prefix_bytes(cs, n - 1) + len_utf8(cs[n])

\* String::insert(byte_pos, c); panics unless byte_pos is a char boundary
string_insert_panics(text, byte_pos) == ~is_char_boundary(text, byte_pos)
string_insert(text, byte_pos, c) ==
    SubSeq(text, 1, byte_pos) \o encode(c) \o SubSeq(text, byte_pos + 1, Len(text))

\* String::remove(byte_pos): removes the character starting at byte_pos; panics
\* when byte_pos is the end of the string or no char boundary
string_remove_panics(text, byte_pos) ==
    byte_pos >= Len(text) \/ ~is_char_boundary(text, byte_pos)
string_remove(text, byte_pos) ==
    SubSeq(text, 1, byte_pos)
        \o SubSeq(text, byte_pos + len_utf8(text[byte_pos + 1][1]) + 1, Len(text))

\* a removal of the character after the one at pos
vec_remove_next(cs, pos) == SubSeq(cs, 1, pos + 1) \o SubSeq(cs, pos + 3, Len(cs))

\* Vec::remove(pos) on the character vector
vec_remove(cs, pos) == SubSeq(cs, 1, pos) \o SubSeq(cs, pos + 2, Len(cs))

\* InputState::new / InputState::default
InputStateDefault == [current_input |-> <<>>, cursor_pos |-> 0, is_modifying |-> FALSE]

\* a byte position taken to be the character position
add_char_byte_pos_as_chars(s) == s.cursor_pos

\* CursorState::add_char: the byte position of the cursor, as the code computes it
add_char_byte_pos(s) ==
    LET char_pos == s.cursor_pos
        cs == chars(s.current_input)
    IN  IF char_pos = 0 THEN 0
        ELSE IF char_pos >= Len(cs) THEN Len(s.current_input)
        ELSE prefix_bytes(cs, char_pos)

add_char_panics(s, c) == string_insert_panics(s.current_input, add_char_byte_pos(s))

add_char(s, c) ==
    [s EXCEPT !.current_input = string_insert(s.current_input, add_char_byte_pos(s), c),
              !.cursor_pos = s.cursor_pos + 1]

\* CursorState::remove_char_before_cursor
remove_char_before_cursor_panics(s) ==
    /\ s.cursor_pos > 0
    /\ \/ s.cursor_pos - 1 > Len(chars(s.current_input))
       \/ string_remove_panics(s.current_input,
                               prefix_bytes(chars(s.current_input), s.cursor_pos - 1))

remove_char_before_cursor(s) ==
    LET char_pos == s.cursor_pos IN
    IF char_pos > 0
    THEN LET cs == chars(s.current_input)
             byte_pos == prefix_bytes(cs, char_pos - 1)
         IN  [s EXCEPT !.current_input = string_remove(s.current_input, byte_pos),
                       !.cursor_pos = char_pos - 1]
    ELSE s

\* CursorState::delete_char_after_cursor
delete_char_after_cursor(s) ==
    LET pos == s.cursor_pos
        text_len == Len(chars(s.current_input))
    IN  IF pos < text_len
        THEN [s EXCEPT !.current_input = collect(vec_remove(chars(s.current_input), pos))]
        ELSE s

\* a move_cursor_left that goes to the start of the text
move_cursor_home(s) == [s EXCEPT !.cursor_pos = 0]

\* CursorState::move_cursor_left
move_cursor_left(s) ==
    IF s.cursor_pos > 0 THEN [s EXCEPT !.cursor_pos = s.cursor_pos - 1] ELSE s

\* move_cursor_right without its test against the length of the text
move_cursor_right_unchecked(s) == [s EXCEPT !.cursor_pos = s.cursor_pos + 1]

\* CursorState::move_cursor_right
move_cursor_right(s) ==
    LET text_len == Len(chars(s.current_input)) IN
    IF s.cursor_pos < text_len THEN [s EXCEPT !.cursor_pos = s.cursor_pos + 1] ELSE s

\* a clear that puts the cursor back and keeps the text
clear_cursor_only(s) == [s EXCEPT !.cursor_pos = 0]

\* CursorState::clear
clear(s) == [s EXCEPT !.current_input = <<>>, !.cursor_pos = 0]

-----------------------------------------------------------------------------
(* Persistence.  One database holds a table of lists and a table of items;  *)
(* a row's position gives its place in the display order.  Every call is    *)
(* fallible: a failed write leaves the tables as they were.                 *)

EmptyDb == [lists |-> {}, items |-> {}]

SetMax(S) == CHOOSE x \in S : \A y \in S : y <= x

\* ORDER BY position
RECURSIVE SortByPosition(_)
SortByPosition(rows) ==
    IF rows = {} THEN <<>>
    ELSE LET first == CHOOSE r \in rows : \A q \in rows : r.position <= q.position
         IN  <<first>> \o SortByPosition(rows \ {first})

NextId(rows) == IF rows = {} THEN 1 ELSE SetMax({r.id : r \in rows}) + 1
NextPosition(rows) == IF rows = {} THEN 1 ELSE SetMax({r.position : r \in rows}) + 1

\* the rows left after one is deleted, each at the position it had
LeaveGap(rows, gone) == rows \ {gone}

\* the rows left after one is deleted, the later ones moved up to close the gap
CloseGap(rows, gone) ==
    {IF r.position > gone.position THEN [r EXCEPT !.position = r.position - 1] ELSE r
        : r \in rows \ {gone}}

\* the rows with the positions of rows a and b exchanged
SwapPositions(rows, a, b) ==
    {IF r = a THEN [r EXCEPT !.position = b.position]
     ELSE IF r = b THEN [r EXCEPT !.position = a.position]
     ELSE r : r \in rows}

\* the neighbour of row r in direction dir (-1: before, 1: after), as a set
Neighbour(rows, r, dir) ==
    IF dir < 0
    THEN {q \in rows : /\ q.position < r.position
                       /\ \A x \in rows : x.position < r.position => x.position <= q.position}
    ELSE {q \in rows : /\ q.position > r.position
                       /\ \A x \in rows : x.position > r.position => x.position >= q.position}

Reposition(rows, id, dir) ==
    LET me == {r \in rows : r.id = id} IN
    IF me = {} THEN rows
    ELSE LET r == CHOOSE x \in me : TRUE
             nb == Neighbour(rows, r, dir)
         IN  IF nb = {} THEN rows ELSE SwapPositions(rows, r, CHOOSE q \in nb : TRUE)

\* TodoList::create
TodoList_create(db, name) ==
    [db EXCEPT !.lists = @ \cup {[id |-> NextId(db.lists), name |-> name,
                                  position |-> NextPosition(db.lists)]}]

\* TodoList::update_name
TodoList_update_name(db, id, name) ==
    [db EXCEPT !.lists = {IF r.id = id THEN [r EXCEPT !.name = name] ELSE r : r \in @}]

\* TodoList::delete: the list's items go with it
TodoList_delete(db, id) ==
    LET me == {r \in db.lists : r.id = id} IN
    IF me = {} THEN db
    ELSE [lists |-> CloseGap(db.lists, CHOOSE r \in me : TRUE),
          items |-> {it \in db.items : it.list_id # id}]

\* TodoList::move_up / TodoList::move_down
TodoList_move(db, id, dir) == [db EXCEPT !.lists = Reposition(@, id, dir)]

ItemsOf(db, list_id) == {it \in db.items : it.list_id = list_id}

\* TodoItem::create; the list must exist (the foreign key)
TodoItem_create_fails(db, list_id) == \A r \in db.lists : r.id # list_id
TodoItem_create(db, list_id, name) ==
    [db EXCEPT !.items = @ \cup {[id |-> NextId(db.items), list_id |-> list_id,
                                  name |-> name, is_done |-> FALSE,
                                  position |-> NextPosition(ItemsOf(db, list_id))]}]

\* TodoItem::update_name
TodoItem_update_name(db, id, name) ==
    [db EXCEPT !.items = {IF it.id = id THEN [it EXCEPT !.name = name] ELSE it : it \in @}]

\* TodoItem::toggle_done
TodoItem_toggle_done(db, id) ==
    [db EXCEPT !.items = {IF it.id = id THEN [it EXCEPT !.is_done = ~it.is_done] ELSE it
                             : it \in @}]

\* TodoItem::delete
TodoItem_delete(db, id) ==
    LET me == {it \in db.items : it.id = id} IN
    IF me = {} THEN db
    ELSE LET it == CHOOSE x \in me : TRUE
         IN  [db EXCEPT !.items = (@ \ ItemsOf(db, it.list_id))
                                      \cup CloseGap(ItemsOf(db, it.list_id), it)]

\* TodoItem::move_up / TodoItem::move_down: within the item's list
TodoItem_move(db, id, dir) ==
    LET me == {it \in db.items : it.id = id} IN
    IF me = {} THEN db
    ELSE LET it == CHOOSE x \in me : TRUE
         IN  [db EXCEPT !.items = (@ \ ItemsOf(db, it.list_id))
                                      \cup Reposition(ItemsOf(db, it.list_id), id, dir)]

\* the items of one list in display order
ItemsInOrder(db, list_id) == SortByPosition(ItemsOf(db, list_id))

\* UIList::get_all: every list in display order with its items, nothing selected
UIList_get_all(db) ==
    LET ls == SortByPosition(db.lists) IN
    [k \in 1..Len(ls) |-> [list |-> ls[k], items |-> ItemsInOrder(db, ls[k].id),
                           item_state |-> None]]

\* UIList::update_items: reloads the items, the item selection stays
UIList_update_items(ui_list, db) == [ui_list EXCEPT !.items = ItemsInOrder(db, ui_list.list.id)]

-----------------------------------------------------------------------------
(* ratatui's ListState, the selection of a list widget.  select_next and    *)
(* select_previous do not know the number of entries: the index they set is *)
(* corrected when the list is rendered next.                                *)

\* usize::MAX, which select_previous sets when nothing is selected
UsizeMax == 2147483647

saturating_add1(i) == IF i >= UsizeMax THEN UsizeMax ELSE i + 1
saturating_sub1(i) == IF i = 0 THEN 0 ELSE i - 1

\* ListState::select_next
ListState_select_next(sel) == Some(IF IsSome(sel) THEN saturating_add1(Unwrap(sel)) ELSE 0)

\* ListState::select_previous
ListState_select_previous(sel) ==
    Some(IF IsSome(sel) THEN saturating_sub1(Unwrap(sel)) ELSE UsizeMax)

\* ListState::select_first
ListState_select_first(sel) == Some(0)

\* the List widget's render: nothing selected in an empty list, and a selection
\* past the end set to the last entry
ListState_render(sel, n) ==
    IF n = 0 THEN None
    ELSE IF IsSome(sel) /\ Unwrap(sel) >= n THEN Some(n - 1)
    ELSE sel

-----------------------------------------------------------------------------
(* ListsComponent.  An operation takes the component, the tables of the    *)
(* connected database and the persistence call that fails ("none", "write"  *)
(* or "reload"), and gives the component, the tables and the result after   *)
(* it ("Ok", "Err", or "Panic" for an index out of bounds).                 *)

FailPoints == {"none", "write", "reload"}

\* the calls that may fail now: none once MaxFaults calls have failed
MayFail(points) == IF faults < MaxFaults THEN points ELSE {"none"}


Result(lc, db, res) == [lc |-> lc, db |-> db, res |-> res]

\* ListsComponent::new
ListsComponent_new == [lists |-> <<>>, list_state |-> None]

\* a load that keeps the lists in memory instead of reading them
load_lists_keep(lc, db, f) ==
    IF f = "reload" THEN Result(lc, db, "Err") ELSE Result(lc, db, "Ok")

\* ListsComponent::load_lists
load_lists(lc, db, f) ==
    IF f = "reload" THEN Result(lc, db, "Err")
    ELSE Result([lc EXCEPT !.lists = UIList_get_all(db)], db, "Ok")

\* ListsComponent::select_next
select_next(lc) == [lc EXCEPT !.list_state = ListState_select_next(@)]

\* ListsComponent::select_previous
select_previous(lc) == [lc EXCEPT !.list_state = ListState_select_previous(@)]

\* ListsComponent::get_selected_list: the selected list's index (1-based), if any
SelectedListIndex(lc) ==
    IF IsSome(lc.list_state) /\ Unwrap(lc.list_state) < Len(lc.lists)
    THEN Unwrap(lc.list_state) + 1 ELSE 0

\* the selection restored by refresh_lists after the reload
refresh_selection(selected_index, n) ==
    IF IsSome(selected_index)
    THEN IF Unwrap(selected_index) < n THEN Some(Unwrap(selected_index))
         ELSE IF n # 0 THEN Some(n - 1)
         ELSE selected_index
    ELSE selected_index

\* ListsComponent::refresh_lists
refresh_lists(lc, db, f) ==
    LET selected_index == lc.list_state
        r == load_lists(lc, db, f)
    IN  IF r.res # "Ok" THEN r
        ELSE Result([r.lc EXCEPT !.list_state =
                        refresh_selection(selected_index, Len(r.lc.lists))], db, "Ok")

\* the selection after a move: it follows the moved list
move_up_selection(sel, i) == IF i > 0 THEN Some(i - 1) ELSE sel
move_down_selection(sel, i, n) == IF i + 1 < n THEN Some(i + 1) ELSE sel

\* ListsComponent::move_selected_list_up
move_selected_list_up(lc, db, f) ==
    IF ~IsSome(lc.list_state) THEN Result(lc, db, "Ok")
    ELSE LET i == Unwrap(lc.list_state) IN
         IF i >= Len(lc.lists) THEN Result(lc, db, "Panic")
         ELSE IF f = "write" THEN Result(lc, db, "Err")
         ELSE LET db1 == TodoList_move(db, lc.lists[i + 1].list.id, -1)
                  r == refresh_lists(lc, db1, f)
              IN  IF r.res # "Ok" THEN r
                  ELSE Result([r.lc EXCEPT !.list_state = move_up_selection(@, i)],
                              db1, "Ok")

\* ListsComponent::move_selected_list_down
move_selected_list_down(lc, db, f) ==
    IF ~IsSome(lc.list_state) THEN Result(lc, db, "Ok")
    ELSE LET i == Unwrap(lc.list_state) IN
         IF i >= Len(lc.lists) THEN Result(lc, db, "Panic")
         ELSE IF f = "write" THEN Result(lc, db, "Err")
         ELSE LET db1 == TodoList_move(db, lc.lists[i + 1].list.id, 1)
                  r == refresh_lists(lc, db1, f)
              IN  IF r.res # "Ok" THEN r
                  ELSE Result([r.lc EXCEPT !.list_state =
                                  move_down_selection(@, i, Len(r.lc.lists))], db1, "Ok")

\* the selection after the entity at index i was deleted and n are left
delete_selection(sel, i, n) ==
    IF n = 0 THEN None
    ELSE IF i >= n THEN Some(n - 1)
    ELSE sel

\* a delete that reloads the lists even when no list is selected
delete_list_reloading(lc, db, f) ==
    IF ~IsSome(lc.list_state) THEN load_lists(lc, db, f)
    ELSE Result(lc, db, "Ok")

\* ListsComponent::delete_selected_list_static
delete_selected_list_static(lc, db, f) ==
    IF ~IsSome(lc.list_state) THEN Result(lc, db, "Ok")
    ELSE LET i == Unwrap(lc.list_state) IN
         IF i >= Len(lc.lists) THEN Result(lc, db, "Panic")
         ELSE IF f = "write" THEN Result(lc, db, "Err")
         ELSE LET db1 == TodoList_delete(db, lc.lists[i + 1].list.id)
                  r == load_lists(lc, db1, f)
              IN  IF r.res # "Ok" THEN r
                  ELSE Result([r.lc EXCEPT !.list_state =
                                  delete_selection(@, i, Len(r.lc.lists))], db1, "Ok")

\* ListsComponent::create_list
create_list(lc, name, db, f) ==
    IF f = "write" THEN Result(lc, db, "Err")
    ELSE load_lists(lc, TodoList_create(db, name), f)

\* ListsComponent::update_list
update_list(lc, name, db, f) ==
    IF ~IsSome(lc.list_state) THEN Result(lc, db, "Ok")
    ELSE LET i == Unwrap(lc.list_state) IN
         IF i >= Len(lc.lists) THEN Result(lc, db, "Panic")
         ELSE IF f = "write" THEN Result(lc, db, "Err")
         ELSE load_lists(lc, TodoList_update_name(db, lc.lists[i + 1].list.id, name), f)

-----------------------------------------------------------------------------
(* ItemsComponent.  An operation takes the UIList of the selected list and  *)
(* gives it back with the tables and the result.                            *)

ItemResult(ul, db, res) == [ul |-> ul, db |-> db, res |-> res]

\* ItemsComponent::select_next_item
select_next_item(ui_list) == [ui_list EXCEPT !.item_state = ListState_select_next(@)]

\* ItemsComponent::select_previous_item
select_previous_item(ui_list) == [ui_list EXCEPT !.item_state = ListState_select_previous(@)]

\* ItemsComponent::remove_item_selection
remove_item_selection(ui_list) == [ui_list EXCEPT !.item_state = None]

\* a select_first_item that selects the first item whatever was selected
select_first_item_always(ui_list) == [ui_list EXCEPT !.item_state = ListState_select_first(@)]

\* ItemsComponent::select_first_item
select_first_item(ui_list) ==
    IF ~IsSome(ui_list.item_state)
    THEN [ui_list EXCEPT !.item_state = ListState_select_first(@)]
    ELSE ui_list

\* UIList::update_items as the components call it, with its failure
update_items(ui_list, db, f) ==
    IF f = "reload" THEN ItemResult(ui_list, db, "Err")
    ELSE ItemResult(UIList_update_items(ui_list, db), db, "Ok")

\* ItemsComponent::toggle_item_done: flips the item in place, no reload
toggle_item_done(ui_list, db, f) ==
    IF ~IsSome(ui_list.item_state) THEN ItemResult(ui_list, db, "Ok")
    ELSE LET j == Unwrap(ui_list.item_state) IN
         IF j >= Len(ui_list.items) THEN ItemResult(ui_list, db, "Panic")
         ELSE IF f = "write" THEN ItemResult(ui_list, db, "Err")
         ELSE ItemResult([ui_list EXCEPT !.items[j + 1].is_done = ~@],
                         TodoItem_toggle_done(db, ui_list.items[j + 1].id), "Ok")

\* ItemsComponent::create_item
create_item(ui_list, name, db, f) ==
    IF f = "write" \/ TodoItem_create_fails(db, ui_list.list.id)
    THEN ItemResult(ui_list, db, "Err")
    ELSE update_items(ui_list, TodoItem_create(db, ui_list.list.id, name), f)

\* ItemsComponent::update_item
update_item(ui_list, name, db, f) ==
    IF ~IsSome(ui_list.item_state) THEN ItemResult(ui_list, db, "Ok")
    ELSE LET j == Unwrap(ui_list.item_state) IN
         IF j >= Len(ui_list.items) THEN ItemResult(ui_list, db, "Panic")
         ELSE IF f = "write" THEN ItemResult(ui_list, db, "Err")
         ELSE update_items(ui_list, TodoItem_update_name(db, ui_list.items[j + 1].id, name), f)

\* ItemsComponent::delete_selected_item
delete_selected_item(ui_list, db, f) ==
    IF ~IsSome(ui_list.item_state) THEN ItemResult(ui_list, db, "Ok")
    ELSE LET j == Unwrap(ui_list.item_state) IN
         IF j >= Len(ui_list.items) THEN ItemResult(ui_list, db, "Panic")
         ELSE IF f = "write" THEN ItemResult(ui_list, db, "Err")
         ELSE LET r == update_items(ui_list, TodoItem_delete(db, ui_list.items[j + 1].id), f)
              IN  IF r.res # "Ok" THEN r
                  ELSE ItemResult([r.ul EXCEPT !.item_state =
                                      delete_selection(@, j, Len(r.ul.items))], r.db, "Ok")

\* ItemsComponent::move_selected_item_up
move_selected_item_up(ui_list, db, f) ==
    IF ~IsSome(ui_list.item_state) THEN ItemResult(ui_list, db, "Ok")
    ELSE LET j == Unwrap(ui_list.item_state) IN
         IF j >= Len(ui_list.items) THEN ItemResult(ui_list, db, "Panic")
         ELSE IF f = "write" THEN ItemResult(ui_list, db, "Err")
         ELSE LET r == update_items(ui_list, TodoItem_move(db, ui_list.items[j + 1].id, -1), f)
              IN  IF r.res # "Ok" THEN r
                  ELSE ItemResult([r.ul EXCEPT !.item_state = move_up_selection(@, j)],
                                  r.db, "Ok")

\* ItemsComponent::move_selected_item_down
move_selected_item_down(ui_list, db, f) ==
    IF ~IsSome(ui_list.item_state) THEN ItemResult(ui_list, db, "Ok")
    ELSE LET j == Unwrap(ui_list.item_state) IN
         IF j >= Len(ui_list.items) THEN ItemResult(ui_list, db, "Panic")
         ELSE IF f = "write" THEN ItemResult(ui_list, db, "Err")
         ELSE LET r == update_items(ui_list, TodoItem_move(db, ui_list.items[j + 1].id, 1), f)
              IN  IF r.res # "Ok" THEN r
                  ELSE ItemResult([r.ul EXCEPT !.item_state =
                                      move_down_selection(@, j, Len(r.ul.items))], r.db, "Ok")

\* the handlers' `if let Some(ui_list) = lists_component.get_selected_list_mut()`:
\* the item operation applied to the selected list, nothing without one
OnSelectedList(lc, db, Op(_, _)) ==
    LET k == SelectedListIndex(lc) IN
    IF k = 0 THEN Result(lc, db, "Ok")
    ELSE LET r == Op(lc.lists[k], db)
         IN  Result([lc EXCEPT !.lists[k] = r.ul], r.db, r.res)

-----------------------------------------------------------------------------
(* The application state and its event loop (App::run): draw, read one key, *)
(* run its handler to the end, and again until exit is set.                 *)

\* the names submitted to create and rename
Names == {collect(<<"a">>), collect(<<"eacute">>)}

\* Config::default: the database "dojo" in the file judo.db; each of the two
\* names is one unit of text that no popup can type
DefaultDbName == <<<<"dojo", 1>>>>
ConnectionStr(file) == <<"sqlite", file>>
DefaultDBConfig == [name |-> DefaultDbName, connection_str |-> ConnectionStr(<<<<"judo", 1>>>>)]
DefaultConfig == [default |-> DefaultDbName, dbs |-> <<DefaultDBConfig>>]

\* Config::get_default: the one database of the default name; an error when no
\* database or several databases have it
get_default(cfg) ==
    LET matching_dbs == {k \in 1..Len(cfg.dbs) : cfg.dbs[k].name = cfg.default} IN
    IF Cardinality(matching_dbs) = 1
    THEN [res |-> "Ok", db |-> cfg.dbs[CHOOSE k \in matching_dbs : TRUE]]
    ELSE [res |-> "Err", db |-> None]

\* the command handled last: its name, the call of it that failed ("none" unless
\* the result is "Err") and its result
Last(op, f, res) == [op |-> op, f |-> f, res |-> res]

\* the frame drawn by App::render: the list widget corrects the list selection,
\* then the item widget of the selected list corrects its item selection
RenderLists(lc) ==
    LET lc1 == [lc EXCEPT !.list_state = ListState_render(@, Len(lc.lists))]
        k == SelectedListIndex(lc1)
    IN  IF k = 0 THEN lc1
        ELSE [lc1 EXCEPT !.lists[k].item_state = ListState_render(@, Len(lc1.lists[k].items))]

\* App::run, terminal.draw
Draw ==
    /\ pc = "draw"
    /\ lists_component' = RenderLists(lists_component)
    /\ last' = Last("draw", "none", IF RenderLists(lists_component) # lists_component
                             THEN "Corrected" ELSE "Ok")
    /\ pc' = "key"
    /\ UNCHANGED <<current_screen, input_state, config, current_db_config, pool,
                   selected_db_index, exit, storage, faults>>

\* the tables of the connected database
Db == storage[pool]

\* a handler that ran a component operation with result r
Handled(op, f, r) ==
    /\ lists_component' = r.lc
    /\ storage' = [storage EXCEPT ![pool] = r.db]
    /\ last' = Last(op, IF r.res = "Err" THEN f ELSE "none", r.res)
    /\ faults' = IF f # "none" /\ r.res = "Err" THEN faults + 1 ELSE faults
    /\ pc' = IF r.res = "Panic" THEN "panicked" ELSE "draw"

\* CurrentScreen
Screens == {"Main", "AddList", "ModifyList", "AddItem", "ModifyItem", "ChangeDB", "AddDB"}

\* a routing that hands the keys of ModifyItem to the handler of the list popups
handle_key_event_by_popup_kind(screen) ==
    CASE screen = "Main" -> "handle_main_screen_key"
      [] screen \in {"AddList", "ModifyList", "ModifyItem"}
            -> "handle_add_or_modify_list_screen_key"
      [] screen = "AddItem" -> "handle_add_or_modify_item_screen_key"
      [] screen = "ChangeDB" -> "handle_change_db_screen_key"
      [] screen = "AddDB" -> "handle_add_db_screen_key"

\* App::handle_key_event: the handler that the active screen routes a key to
handle_key_event(screen) ==
    CASE screen = "Main" -> "handle_main_screen_key"
      [] screen \in {"AddList", "ModifyList"} -> "handle_add_or_modify_list_screen_key"
      [] screen = "AddItem" -> "handle_add_or_modify_item_screen_key"
      [] screen = "ModifyItem" -> "handle_add_or_modify_item_screen_key"
      [] screen = "ChangeDB" -> "handle_change_db_screen_key"
      [] screen = "AddDB" -> "handle_add_db_screen_key"

\* a key was read and the active screen routes it to the handler of one of screens
On(screens) ==
    /\ pc = "key"
    /\ handle_key_event(current_screen) \in {handle_key_event(scr) : scr \in screens}

OnMain == On({"Main"})

MainFrame == UNCHANGED <<current_screen, input_state, config, current_db_config, pool,
                         selected_db_index, exit>>

KeySelectNextList ==
    /\ OnMain
    /\ Handled("select_next", "none", Result(select_next(lists_component), Db, "Ok"))
    /\ MainFrame

KeySelectPreviousList ==
    /\ OnMain
    /\ Handled("select_previous", "none",
               Result(select_previous(lists_component), Db, "Ok"))
    /\ MainFrame

KeySelectNextItem ==
    /\ OnMain
    /\ Handled("select_next_item", "none",
               OnSelectedList(lists_component, Db,
                              LAMBDA ul, db : ItemResult(select_next_item(ul), db, "Ok")))
    /\ MainFrame

KeySelectPreviousItem ==
    /\ OnMain
    /\ Handled("select_previous_item", "none",
               OnSelectedList(lists_component, Db,
                              LAMBDA ul, db : ItemResult(select_previous_item(ul), db, "Ok")))
    /\ MainFrame

KeySelectFirstItem ==
    /\ OnMain
    /\ Handled("select_first_item", "none",
               OnSelectedList(lists_component, Db,
                              LAMBDA ul, db : ItemResult(select_first_item(ul), db, "Ok")))
    /\ MainFrame

KeyRemoveItemSelection ==
    /\ OnMain
    /\ Handled("remove_item_selection", "none",
               OnSelectedList(lists_component, Db,
                              LAMBDA ul, db : ItemResult(remove_item_selection(ul), db, "Ok")))
    /\ MainFrame

ToggleDone(points) ==
    /\ OnMain
    /\ \E f \in MayFail(points) :
          Handled("toggle_item_done", f,
                  OnSelectedList(lists_component, Db,
                                 LAMBDA ul, db : toggle_item_done(ul, db, f)))
    /\ MainFrame

KeyToggleDone == ToggleDone({"none", "write"})

MoveListUp(points) ==
    /\ OnMain
    /\ \E f \in MayFail(points) :
          Handled("move_list_up", f, move_selected_list_up(lists_component, Db, f))
    /\ MainFrame

KeyMoveListUp == MoveListUp(FailPoints)

MoveListDown(points) ==
    /\ OnMain
    /\ \E f \in MayFail(points) :
          Handled("move_list_down", f, move_selected_list_down(lists_component, Db, f))
    /\ MainFrame

KeyMoveListDown == MoveListDown(FailPoints)

DeleteList(points) ==
    /\ OnMain
    /\ \E f \in MayFail(points) :
          Handled("delete_list", f, delete_selected_list_static(lists_component, Db, f))
    /\ MainFrame

KeyDeleteList == DeleteList(FailPoints)

MoveItemUp(points) ==
    /\ OnMain
    /\ \E f \in MayFail(points) :
          Handled("move_item_up", f,
                  OnSelectedList(lists_component, Db,
                                 LAMBDA ul, db : move_selected_item_up(ul, db, f)))
    /\ MainFrame

KeyMoveItemUp == MoveItemUp(FailPoints)

MoveItemDown(points) ==
    /\ OnMain
    /\ \E f \in MayFail(points) :
          Handled("move_item_down", f,
                  OnSelectedList(lists_component, Db,
                                 LAMBDA ul, db : move_selected_item_down(ul, db, f)))
    /\ MainFrame

KeyMoveItemDown == MoveItemDown(FailPoints)

DeleteItem(points) ==
    /\ OnMain
    /\ \E f \in MayFail(points) :
          Handled("delete_item", f,
                  OnSelectedList(lists_component, Db,
                                 LAMBDA ul, db : delete_selected_item(ul, db, f)))
    /\ MainFrame

KeyDeleteItem == DeleteItem(FailPoints)

\* the commit of a list name popup, as it reaches the component
CreateList(names, points, max_id, max_rows) ==
    /\ OnMain
    /\ NextId(Db.lists) <= max_id
    /\ Cardinality(Db.lists) + Cardinality(Db.items) < max_rows
    /\ \E name \in names, f \in MayFail(points) :
          Handled("create_list", f, create_list(lists_component, name, Db, f))
    /\ MainFrame

SubmitCreateList == CreateList(Names, FailPoints, MaxLists, MaxRows)

SubmitUpdateList ==
    /\ OnMain
    /\ \E name \in Names, f \in MayFail(FailPoints) :
          Handled("update_list", f, update_list(lists_component, name, Db, f))
    /\ MainFrame

\* the commit of an item name popup, as it reaches the component
CreateItem(names, points, max_id, max_rows) ==
    /\ OnMain
    /\ NextId(Db.items) <= max_id
    /\ Cardinality(Db.lists) + Cardinality(Db.items) < max_rows
    /\ \E name \in names, f \in MayFail(points) :
          Handled("create_item", f,
                  OnSelectedList(lists_component, Db,
                                 LAMBDA ul, db : create_item(ul, name, db, f)))
    /\ MainFrame

SubmitCreateItem == CreateItem(Names, FailPoints, MaxItems, MaxRows)

SubmitUpdateItem ==
    /\ OnMain
    /\ \E name \in Names, f \in MayFail(FailPoints) :
          Handled("update_item", f,
                  OnSelectedList(lists_component, Db,
                                 LAMBDA ul, db : update_item(ul, name, db, f)))
    /\ MainFrame

\* the state App::new builds on the default configuration and an empty database
InitMain ==
    /\ pc = "draw"
    /\ current_screen = "Main"
    /\ input_state = InputStateDefault
    /\ config = DefaultConfig
    /\ current_db_config = DefaultDBConfig
    /\ pool = DefaultDBConfig.connection_str
    /\ selected_db_index = 0
    /\ exit = FALSE
    /\ storage = (DefaultDBConfig.connection_str :> EmptyDb)
    /\ lists_component = load_lists(ListsComponent_new, storage[pool], "none").lc
    /\ faults = 0
    /\ last = Last("new", "none", "Ok")

NextMain ==
    \/ Draw
    \/ KeySelectNextList \/ KeySelectPreviousList
    \/ KeySelectNextItem \/ KeySelectPreviousItem
    \/ KeySelectFirstItem \/ KeyRemoveItemSelection
    \/ KeyToggleDone
    \/ KeyMoveListUp \/ KeyMoveListDown \/ KeyDeleteList
    \/ KeyMoveItemUp \/ KeyMoveItemDown \/ KeyDeleteItem
    \/ SubmitCreateList \/ SubmitUpdateList
    \/ SubmitCreateItem \/ SubmitUpdateItem

SpecMain == InitMain /\ [][NextMain]_vars

-----------------------------------------------------------------------------
(* The mutations that place rows (create, delete, move up, move down) on a  *)
(* database of up to MaxPlaced lists or items of one name, so that a row    *)
(* can be taken from between two others.                                    *)

NextPlaced ==
    \/ Draw
    \/ KeySelectNextList \/ KeySelectPreviousList
    \/ KeySelectNextItem \/ KeySelectPreviousItem
    \/ KeySelectFirstItem
    \/ CreateList({collect(<<"a">>)}, FailPoints, MaxPlaced, MaxPlacedRows)
    \/ CreateItem({collect(<<"a">>)}, FailPoints, MaxPlaced, MaxPlacedRows)
    \/ KeyMoveListUp \/ KeyMoveListDown \/ KeyDeleteList
    \/ KeyMoveItemUp \/ KeyMoveItemDown \/ KeyDeleteItem

SpecPlaced == InitMain /\ [][NextPlaced]_vars

-----------------------------------------------------------------------------
(* The editor alone: any text with any valid cursor, and the operations of *)
(* CursorState applied to it in any order.                                  *)

\* the texts of at most n characters
RECURSIVE Texts(_)
Texts(n) ==
    IF n = 0 THEN {<<>>}
    ELSE Texts(n - 1) \cup {t \o encode(c) : t \in Texts(n - 1), c \in Chars}

char_count(text) == Len(chars(text))

\* an editor operation that gave the input state s, or panicked
Edited(op, panics, s) ==
    /\ pc = "key"
    /\ input_state' = IF panics THEN input_state ELSE s
    /\ pc' = IF panics THEN "panicked" ELSE "key"
    /\ last' = Last(op, "none", IF panics THEN "Panic" ELSE "Ok")
    /\ UNCHANGED <<appvars, faults>>

EdAddChar ==
    /\ char_count(input_state.current_input) < MaxTextLen
    /\ \E c \in Chars : Edited("add_char", add_char_panics(input_state, c),
                               add_char(input_state, c))

EdRemoveCharBeforeCursor ==
    Edited("remove_char_before_cursor", remove_char_before_cursor_panics(input_state),
           remove_char_before_cursor(input_state))

EdDeleteCharAfterCursor ==
    Edited("delete_char_after_cursor", FALSE, delete_char_after_cursor(input_state))

EdMoveCursorLeft == Edited("move_cursor_left", FALSE, move_cursor_left(input_state))

EdMoveCursorRight == Edited("move_cursor_right", FALSE, move_cursor_right(input_state))

EdClear == Edited("clear", FALSE, clear(input_state))

InitCursor ==
    /\ pc = "key"
    /\ current_screen = "AddList"
    /\ input_state \in {[current_input |-> t, cursor_pos |-> p, is_modifying |-> m] :
                           t \in Texts(MaxTextLen), p \in 0..MaxTextLen, m \in BOOLEAN}
    /\ input_state.cursor_pos <= char_count(input_state.current_input)
    /\ config = DefaultConfig
    /\ current_db_config = DefaultDBConfig
    /\ pool = DefaultDBConfig.connection_str
    /\ selected_db_index = 0
    /\ exit = FALSE
    /\ storage = (DefaultDBConfig.connection_str :> EmptyDb)
    /\ lists_component = ListsComponent_new
    /\ faults = 0
    /\ last = Last("new", "none", "Ok")

NextCursor ==
    \/ EdAddChar
    \/ EdRemoveCharBeforeCursor
    \/ EdDeleteCharAfterCursor
    \/ EdMoveCursorLeft
    \/ EdMoveCursorRight
    \/ EdClear

SpecCursor == InitCursor /\ [][NextCursor]_vars

-----------------------------------------------------------------------------
(* The whole application: the screens, the popups with their editor, the   *)
(* database registry and the switch between databases.                     *)

\* the stored lists and items over every database file
StoredRows(st) ==
    LET RECURSIVE Sum(_)
        Sum(D) == IF D = {} THEN 0
                  ELSE LET d == CHOOSE x \in D : TRUE
                       IN  Cardinality(st[d].lists) + Cardinality(st[d].items)
                           + Sum(D \ {d})
    IN  Sum(DOMAIN st)

\* the App value: the fields of the struct and the database files behind its pool
self ==
    [current_screen |-> current_screen, input_state |-> input_state,
     lists_component |-> lists_component, config |-> config,
     current_db_config |-> current_db_config, pool |-> pool,
     selected_db_index |-> selected_db_index, exit |-> exit, storage |-> storage]

AppResult(app, res) == [app |-> app, res |-> res]

\* init_db: opens the database file, creating it empty when it is missing
init_db(st, connection_str) ==
    IF connection_str \in DOMAIN st THEN st ELSE (connection_str :> EmptyDb) @@ st

\* App::enter_add_list_screen
enter_add_list_screen(app) ==
    [app EXCEPT !.input_state = InputStateDefault, !.current_screen = "AddList"]

\* an enter_modify_list_screen that opens the popup as a creation
enter_modify_list_as_create(app, selected_list) ==
    [app EXCEPT !.input_state = [current_input |-> selected_list.name, cursor_pos |-> 0,
                                 is_modifying |-> FALSE],
                !.current_screen = "ModifyList"]

\* App::enter_modify_list_screen
enter_modify_list_screen(app, selected_list) ==
    [app EXCEPT !.input_state = [current_input |-> selected_list.name, cursor_pos |-> 0,
                                 is_modifying |-> TRUE],
                !.current_screen = "ModifyList"]

\* an enter_add_item_screen without its test of the list selection
enter_add_item_unguarded(app) ==
    [app EXCEPT !.input_state = InputStateDefault, !.current_screen = "AddItem"]

\* App::enter_add_item_screen
enter_add_item_screen(app) ==
    IF IsSome(app.lists_component.list_state)
    THEN [app EXCEPT !.input_state = InputStateDefault, !.current_screen = "AddItem"]
    ELSE app

\* an enter_modify_item_screen that takes the name of the list
enter_modify_item_list_name(app, ui_list) ==
    IF IsSome(app.lists_component.list_state) /\ IsSome(ui_list.item_state)
    THEN AppResult([app EXCEPT !.input_state =
                                   [current_input |-> ui_list.list.name,
                                    cursor_pos |-> 0, is_modifying |-> TRUE],
                               !.current_screen = "ModifyItem"], "Ok")
    ELSE AppResult(app, "Ok")

\* App::enter_modify_item_screen: ui_list.items[j] panics on an index out of range
enter_modify_item_screen(app, ui_list) ==
    IF IsSome(app.lists_component.list_state) /\ IsSome(ui_list.item_state)
    THEN LET j == Unwrap(ui_list.item_state) IN
         IF j >= Len(ui_list.items) THEN AppResult(app, "Panic")
         ELSE AppResult([app EXCEPT !.input_state =
                                        [current_input |-> ui_list.items[j + 1].name,
                                         cursor_pos |-> 0, is_modifying |-> TRUE],
                                    !.current_screen = "ModifyItem"], "Ok")
    ELSE AppResult(app, "Ok")

\* App::exit_add_or_modify_list_without_saving
exit_add_or_modify_list_without_saving(app) ==
    [app EXCEPT !.current_screen = "Main", !.input_state = clear(@)]

\* an exit_add_item_without_saving that keeps the text of the editor
exit_add_item_keeping_text(app) == [app EXCEPT !.current_screen = "Main"]

\* App::exit_add_item_without_saving
exit_add_item_without_saving(app) ==
    [app EXCEPT !.current_screen = "Main", !.input_state = clear(@)]

\* Iterator::rposition: the index of the last database of that name
position_last(dbs, name) ==
    IF \E k \in 1..Len(dbs) : dbs[k].name = name
    THEN Some((CHOOSE k \in 1..Len(dbs) :
                   /\ dbs[k].name = name
                   /\ \A m \in (k + 1)..Len(dbs) : dbs[m].name # name) - 1)
    ELSE None

\* Iterator::position: the index of the first database of that name, None without one
position(dbs, name) ==
    IF \E k \in 1..Len(dbs) : dbs[k].name = name
    THEN Some((CHOOSE k \in 1..Len(dbs) :
                   /\ dbs[k].name = name
                   /\ \A m \in 1..(k - 1) : dbs[m].name # name) - 1)
    ELSE None

\* App::enter_change_db_screen
enter_change_db_screen(app) ==
    LET p == position(app.config.dbs, app.current_db_config.name) IN
    [app EXCEPT !.selected_db_index = IF IsSome(p) THEN Unwrap(p) ELSE 0,
                !.current_screen = "ChangeDB"]

\* App::exit_change_db_without_saving
exit_change_db_without_saving(app) == [app EXCEPT !.current_screen = "Main"]

\* App::enter_add_db_screen
enter_add_db_screen(app) == [app EXCEPT !.current_screen = "AddDB"]

\* an exit_add_db_without_saving that closes both database popups
exit_add_db_to_main(app) ==
    [app EXCEPT !.current_screen = "Main", !.input_state = clear(@)]

\* App::exit_add_db_without_saving
exit_add_db_without_saving(app) ==
    [app EXCEPT !.current_screen = "ChangeDB", !.input_state = clear(@)]

\* App::select_previous_db
select_previous_db(app) ==
    IF Len(app.config.dbs) = 0 THEN app
    ELSE [app EXCEPT !.selected_db_index =
                         IF @ = 0 THEN Len(app.config.dbs) - 1 ELSE @ - 1]

\* a select_next_db that stops at the last database
select_next_db_saturating(app) ==
    IF Len(app.config.dbs) = 0 THEN app
    ELSE [app EXCEPT !.selected_db_index = Min(@ + 1, Len(app.config.dbs) - 1)]

\* App::select_next_db
select_next_db(app) ==
    IF Len(app.config.dbs) = 0 THEN app
    ELSE [app EXCEPT !.selected_db_index = (@ + 1) % Len(app.config.dbs)]

\* the calls of switch_to_selected_db that may fail: init_db and load_lists
SwitchFailPoints == {"none", "connect", "load"}

\* a switch that takes the selected database as the current one before connecting
switch_assign_first(app, f) ==
    IF app.selected_db_index < Len(app.config.dbs)
    THEN LET selected_db == app.config.dbs[app.selected_db_index + 1]
             app0 == [app EXCEPT !.current_db_config = selected_db]
         IN  IF f = "connect" THEN AppResult(app0, "Err")
             ELSE LET app1 == [app0 EXCEPT !.storage = init_db(@, selected_db.connection_str),
                                           !.pool = selected_db.connection_str,
                                           !.lists_component = ListsComponent_new]
                      r == load_lists(app1.lists_component, app1.storage[app1.pool],
                                      IF f = "load" THEN "reload" ELSE "none")
                  IN  IF r.res # "Ok" THEN AppResult(app1, "Err")
                      ELSE AppResult([app1 EXCEPT !.lists_component = r.lc,
                                                  !.current_screen = "Main"], "Ok")
    ELSE AppResult(app, "Ok")

\* a switch that loads the lists into the component it has, selection included
switch_reusing_component(app, f) ==
    IF app.selected_db_index < Len(app.config.dbs)
    THEN LET selected_db == app.config.dbs[app.selected_db_index + 1] IN
         IF f = "connect" THEN AppResult(app, "Err")
         ELSE LET app1 == [app EXCEPT !.storage = init_db(@, selected_db.connection_str),
                                      !.current_db_config = selected_db,
                                      !.pool = selected_db.connection_str]
                  r == load_lists(app1.lists_component, app1.storage[app1.pool],
                                  IF f = "load" THEN "reload" ELSE "none")
              IN  IF r.res # "Ok" THEN AppResult(app1, "Err")
                  ELSE AppResult([app1 EXCEPT !.lists_component = r.lc,
                                              !.current_screen = "Main"], "Ok")
    ELSE AppResult(app, "Ok")

\* App::switch_to_selected_db
switch_to_selected_db(app, f) ==
    IF app.selected_db_index < Len(app.config.dbs)
    THEN LET selected_db == app.config.dbs[app.selected_db_index + 1] IN
         IF f = "connect" THEN AppResult(app, "Err")
         ELSE LET app1 == [app EXCEPT !.storage = init_db(@, selected_db.connection_str),
                                      !.current_db_config = selected_db,
                                      !.pool = selected_db.connection_str,
                                      !.lists_component = ListsComponent_new]
                  r == load_lists(app1.lists_component, app1.storage[app1.pool],
                                  IF f = "load" THEN "reload" ELSE "none")
              IN  IF r.res # "Ok" THEN AppResult(app1, "Err")
                  ELSE AppResult([app1 EXCEPT !.lists_component = r.lc,
                                              !.current_screen = "Main"], "Ok")
    ELSE AppResult(app, "Ok")

\* a set_selected_db_as_default that also takes the database as the current one
set_default_and_current(app, f) ==
    IF app.selected_db_index < Len(app.config.dbs)
    THEN LET selected_db == app.config.dbs[app.selected_db_index + 1]
             app1 == [app EXCEPT !.config.default = selected_db.name,
                                 !.current_db_config = selected_db]
         IN  AppResult(app1, IF f = "write" THEN "Err" ELSE "Ok")
    ELSE AppResult(app, "Ok")

\* App::set_selected_db_as_default: the default is set, then the registry written
set_selected_db_as_default(app, f) ==
    IF app.selected_db_index < Len(app.config.dbs)
    THEN LET selected_db == app.config.dbs[app.selected_db_index + 1]
             app1 == [app EXCEPT !.config.default = selected_db.name]
         IN  AppResult(app1, IF f = "write" THEN "Err" ELSE "Ok")
    ELSE AppResult(app, "Ok")

\* the calls of create_new_database that may fail: the lookup of the data
\* directory, init_db and Config::write
CreateDbFailPoints == {"none", "data_dir", "init", "write"}

\* a create_new_database that connects to the new database before it opens it
create_connecting_first(app, db_name, set_as_default, f) ==
    LET new_db_config == [name |-> db_name, connection_str |-> ConnectionStr(db_name)]
        app0 == [app EXCEPT !.current_db_config = new_db_config]
    IN  IF f \in {"data_dir", "init"} THEN AppResult(app0, "Err")
        ELSE LET app1 == [app0 EXCEPT !.storage = init_db(@, new_db_config.connection_str),
                                      !.config.dbs = Append(@, new_db_config),
                                      !.config.default =
                                          IF set_as_default THEN db_name ELSE @]
             IN  IF f = "write" THEN AppResult(app1, "Err")
                 ELSE AppResult([app1 EXCEPT !.selected_db_index = Len(app1.config.dbs) - 1],
                                "Ok")

\* a create_new_database that makes every new database the default
create_always_default(app, db_name, set_as_default, f) ==
    IF f \in {"data_dir", "init"} THEN AppResult(app, "Err")
    ELSE LET new_db_config == [name |-> db_name, connection_str |-> ConnectionStr(db_name)]
             app1 == [app EXCEPT !.storage = init_db(@, new_db_config.connection_str),
                                 !.config.dbs = Append(@, new_db_config),
                                 !.config.default = db_name]
         IN  IF f = "write" THEN AppResult(app1, "Err")
             ELSE AppResult([app1 EXCEPT !.selected_db_index = Len(app1.config.dbs) - 1],
                            "Ok")

\* App::create_new_database
create_new_database(app, db_name, set_as_default, f) ==
    IF f \in {"data_dir", "init"} THEN AppResult(app, "Err")
    ELSE LET new_db_config == [name |-> db_name, connection_str |-> ConnectionStr(db_name)]
             app1 == [app EXCEPT !.storage = init_db(@, new_db_config.connection_str),
                                 !.config.dbs = Append(@, new_db_config),
                                 !.config.default = IF set_as_default THEN db_name ELSE @]
         IN  IF f = "write" THEN AppResult(app1, "Err")
             ELSE AppResult([app1 EXCEPT !.selected_db_index = Len(app1.config.dbs) - 1],
                            "Ok")

\* a handler that left the application as r.app with result r.res
AppHandled(op, f, r) ==
    /\ current_screen' = r.app.current_screen
    /\ input_state' = r.app.input_state
    /\ lists_component' = r.app.lists_component
    /\ config' = r.app.config
    /\ current_db_config' = r.app.current_db_config
    /\ pool' = r.app.pool
    /\ selected_db_index' = r.app.selected_db_index
    /\ exit' = r.app.exit
    /\ storage' = r.app.storage
    /\ last' = Last(op, IF r.res = "Err" THEN f ELSE "none", r.res)
    /\ faults' = IF f # "none" /\ r.res = "Err" THEN faults + 1 ELSE faults
    /\ pc' = IF r.res = "Panic" THEN "panicked"
             ELSE IF r.app.exit THEN "done" ELSE "draw"

TextPopups == {"AddList", "ModifyList", "AddItem", "ModifyItem", "AddDB"}

\* the characters typed into the popups
NameChars == {"a", "eacute"}

\* the keys of the Main screen that open a popup or end the program
KeyAddList ==
    /\ OnMain
    /\ AppHandled("enter_add_list_screen", "none", AppResult(enter_add_list_screen(self), "Ok"))

KeyModifyList ==
    /\ OnMain
    /\ LET k == SelectedListIndex(lists_component) IN
       AppHandled("enter_modify_list_screen", "none",
                  AppResult(IF k = 0 THEN self
                            ELSE enter_modify_list_screen(self, lists_component.lists[k].list),
                            "Ok"))

KeyAddItem ==
    /\ OnMain
    /\ AppHandled("enter_add_item_screen", "none", AppResult(enter_add_item_screen(self), "Ok"))

KeyModifyItem ==
    /\ OnMain
    /\ LET k == SelectedListIndex(lists_component) IN
       AppHandled("enter_modify_item_screen", "none",
                  IF k = 0 THEN AppResult(self, "Ok")
                  ELSE enter_modify_item_screen(self, lists_component.lists[k]))

KeyChangeDb ==
    /\ OnMain
    /\ AppHandled("enter_change_db_screen", "none",
                  AppResult(enter_change_db_screen(self), "Ok"))

KeyQuit ==
    /\ OnMain
    /\ AppHandled("quit", "none", AppResult([self EXCEPT !.exit = TRUE], "Ok"))

\* the editing keys of the popups that take a text
PopupEdited(op, panics, s) ==
    AppHandled(op, "none", AppResult([self EXCEPT !.input_state = s],
                                     IF panics THEN "Panic" ELSE "Ok"))

PopupAddChar ==
    /\ On(TextPopups)
    /\ char_count(input_state.current_input) < MaxNameLen
    /\ \E c \in NameChars : PopupEdited("add_char", add_char_panics(input_state, c),
                                    IF add_char_panics(input_state, c) THEN input_state
                                    ELSE add_char(input_state, c))

PopupBackspace ==
    /\ On(TextPopups)
    /\ PopupEdited("remove_char_before_cursor", remove_char_before_cursor_panics(input_state),
                   IF remove_char_before_cursor_panics(input_state) THEN input_state
                   ELSE remove_char_before_cursor(input_state))

PopupDelete ==
    /\ On(TextPopups)
    /\ PopupEdited("delete_char_after_cursor", FALSE, delete_char_after_cursor(input_state))

PopupLeft ==
    /\ On(TextPopups)
    /\ PopupEdited("move_cursor_left", FALSE, move_cursor_left(input_state))

PopupRight ==
    /\ On(TextPopups)
    /\ PopupEdited("move_cursor_right", FALSE, move_cursor_right(input_state))

\* Enter on a name popup ran the component operation with result r: on success
\* the editor is cleared and the screen is Main again
Committed(op, f, r) ==
    LET app1 == [self EXCEPT !.lists_component = r.lc, !.storage[pool] = r.db] IN
    AppHandled(op, f,
               AppResult(IF r.res = "Ok"
                         THEN [app1 EXCEPT !.input_state = clear(@), !.current_screen = "Main"]
                         ELSE app1, r.res))

\* Enter on AddList or ModifyList: an empty name is ignored
CommitListName ==
    /\ On({"AddList", "ModifyList"})
    /\ LET name == input_state.current_input IN
       IF name = <<>> THEN AppHandled("commit_list", "none", AppResult(self, "Ok"))
       ELSE IF input_state.is_modifying
       THEN \E f \in MayFail(FailPoints) :
               Committed("update_list", f, update_list(lists_component, name, Db, f))
       ELSE /\ NextId(Db.lists) <= MaxLists
            /\ StoredRows(storage) < MaxStoredRows
            /\ \E f \in MayFail(FailPoints) :
                  Committed("create_list", f, create_list(lists_component, name, Db, f))

\* Enter on AddItem or ModifyItem: an empty name is ignored
CommitItemName ==
    /\ On({"AddItem", "ModifyItem"})
    /\ LET name == input_state.current_input IN
       IF name = <<>> THEN AppHandled("commit_item", "none", AppResult(self, "Ok"))
       ELSE IF input_state.is_modifying
       THEN \E f \in MayFail(FailPoints) :
               Committed("update_item", f,
                         OnSelectedList(lists_component, Db,
                                        LAMBDA ul, db : update_item(ul, name, db, f)))
       ELSE /\ NextId(Db.items) <= MaxItems
            /\ StoredRows(storage) < MaxStoredRows
            /\ \E f \in MayFail(FailPoints) :
                  Committed("create_item", f,
                            OnSelectedList(lists_component, Db,
                                           LAMBDA ul, db : create_item(ul, name, db, f)))

\* Esc on AddList or ModifyList
DiscardListName ==
    /\ On({"AddList", "ModifyList"})
    /\ AppHandled("exit_add_or_modify_list_without_saving", "none",
                  AppResult(exit_add_or_modify_list_without_saving(self), "Ok"))

\* Esc on AddItem or ModifyItem
DiscardItemName ==
    /\ On({"AddItem", "ModifyItem"})
    /\ AppHandled("exit_add_item_without_saving", "none",
                  AppResult(exit_add_item_without_saving(self), "Ok"))

\* the keys of the ChangeDB screen
KeySelectNextDb ==
    /\ On({"ChangeDB"})
    /\ AppHandled("select_next_db", "none", AppResult(select_next_db(self), "Ok"))

KeySelectPreviousDb ==
    /\ On({"ChangeDB"})
    /\ AppHandled("select_previous_db", "none", AppResult(select_previous_db(self), "Ok"))

KeySwitchDb ==
    /\ On({"ChangeDB"})
    /\ \E f \in MayFail(SwitchFailPoints) :
          AppHandled("switch_to_selected_db", f, switch_to_selected_db(self, f))

KeySetDefaultDb ==
    /\ On({"ChangeDB"})
    /\ \E f \in MayFail({"none", "write"}) :
          AppHandled("set_selected_db_as_default", f, set_selected_db_as_default(self, f))

KeyAddDb ==
    /\ On({"ChangeDB"})
    /\ AppHandled("enter_add_db_screen", "none", AppResult(enter_add_db_screen(self), "Ok"))

DiscardChangeDb ==
    /\ On({"ChangeDB"})
    /\ AppHandled("exit_change_db_without_saving", "none",
                  AppResult(exit_change_db_without_saving(self), "Ok"))

\* Enter on AddDB: an empty name is ignored; on success the editor is cleared
\* and the screen is ChangeDB again
CommitNewDbUpTo(limit) ==
    /\ On({"AddDB"})
    /\ LET db_name == input_state.current_input IN
       IF db_name = <<>> THEN AppHandled("commit_db", "none", AppResult(self, "Ok"))
       ELSE /\ Len(config.dbs) < limit
            /\ \E set_as_default \in BOOLEAN, f \in MayFail(CreateDbFailPoints) :
                  LET r == create_new_database(self, db_name, set_as_default, f) IN
                  AppHandled("create_new_database", f,
                             AppResult(IF r.res = "Ok"
                                       THEN [r.app EXCEPT !.input_state = clear(@),
                                                          !.current_screen = "ChangeDB"]
                                       ELSE r.app, r.res))

CommitNewDb == CommitNewDbUpTo(MaxDbs)

\* Esc on AddDB
DiscardNewDb ==
    /\ On({"AddDB"})
    /\ AppHandled("exit_add_db_without_saving", "none",
                  AppResult(exit_add_db_without_saving(self), "Ok"))

\* a key without a binding on the active screen
KeyIgnored ==
    /\ pc = "key"
    /\ AppHandled("ignored", "none", AppResult(self, "Ok"))

Init == InitMain

\* the collection commands of the Main screen run here on persistence that
\* answers: their failures are the subject of SpecMain
Answering == {"none"}

Next ==
    \/ Draw
    \/ KeySelectNextList \/ KeySelectPreviousList
    \/ KeySelectNextItem \/ KeySelectPreviousItem
    \/ KeySelectFirstItem \/ KeyRemoveItemSelection
    \/ ToggleDone(Answering)
    \/ MoveListUp(Answering) \/ MoveListDown(Answering) \/ DeleteList(Answering)
    \/ MoveItemUp(Answering) \/ MoveItemDown(Answering) \/ DeleteItem(Answering)
    \/ KeyAddList \/ KeyModifyList \/ KeyAddItem \/ KeyModifyItem
    \/ KeyChangeDb \/ KeyQuit
    \/ PopupAddChar \/ PopupBackspace \/ PopupDelete \/ PopupLeft \/ PopupRight
    \/ CommitListName \/ CommitItemName
    \/ DiscardListName \/ DiscardItemName
    \/ KeySelectNextDb \/ KeySelectPreviousDb
    \/ KeySwitchDb \/ KeySetDefaultDb \/ KeyAddDb \/ DiscardChangeDb
    \/ CommitNewDb \/ DiscardNewDb
    \/ KeyIgnored

Spec == Init /\ [][Next]_vars

-----------------------------------------------------------------------------
(* The database screens alone: from Main to ChangeDB and AddDB and back,    *)
(* over a registry of up to MaxRegistered databases, none of them holding a *)
(* list. A name whose registry write failed can be entered again, so that   *)
(* the registry holds the same name twice.                                  *)

NextDb ==
    \/ Draw
    \/ KeyChangeDb \/ KeyQuit
    \/ PopupAddChar \/ PopupBackspace \/ PopupDelete \/ PopupLeft \/ PopupRight
    \/ KeySelectNextDb \/ KeySelectPreviousDb
    \/ KeySwitchDb \/ KeySetDefaultDb \/ KeyAddDb \/ DiscardChangeDb
    \/ CommitNewDbUpTo(MaxRegistered) \/ DiscardNewDb
    \/ KeyIgnored

SpecDb == Init /\ [][NextDb]_vars

-----------------------------------------------------------------------------
(* The event loop with the handlers of create_list and of                   *)
(* delete_selected_list_static taken apart at their await points: the key   *)
(* is read, the write answers, load_lists answers.                          *)
(* Keys wait in the terminal until event::read takes one, so that any key   *)
(* may be the one read.                                                     *)

\* a read that does not wait for the handler before it
ReadingWhileAwaiting == pc \in {"key", "write", "reload"} /\ ~exit

\* App::run: event::read is reached after the frame, with exit not set, and
\* after handle_key_event(key).await of the key before has returned
Reading == pc = "key" /\ ~exit

\* the name that the popup hands to create_list
LoopName == collect(<<"a">>)

\* the key that commits the name: create_list is called and awaits the write
LoopCreateList ==
    /\ Reading
    /\ NextId(Db.lists) <= MaxLists
    /\ pc' = "write"
    /\ last' = Last("create_list", "none", "Pending")
    /\ UNCHANGED <<lists_component, storage, faults>>
    /\ MainFrame

\* the key that deletes the selected list: list.delete is awaited
LoopDeleteList ==
    /\ Reading
    /\ SelectedListIndex(lists_component) # 0
    /\ pc' = "write"
    /\ last' = Last("delete_list", "none", "Pending")
    /\ UNCHANGED <<lists_component, storage, faults>>
    /\ MainFrame

\* TodoList::create(pool, new_list).await? and list.delete(pool).await?
LoopWriteAnswers ==
    /\ pc = "write"
    /\ \E f \in MayFail({"none", "write"}) :
          IF f = "write"
          THEN /\ pc' = "draw"
               /\ last' = Last(last.op, f, "Err")
               /\ faults' = faults + 1
               /\ UNCHANGED storage
          ELSE /\ pc' = "reload"
               /\ storage' = [storage EXCEPT ![pool] =
                                 IF last.op = "create_list" THEN TodoList_create(@, LoopName)
                                 ELSE TodoList_delete(@, lists_component.lists[
                                          SelectedListIndex(lists_component)].list.id)]
               /\ UNCHANGED <<last, faults>>
    /\ UNCHANGED lists_component
    /\ MainFrame

\* lists_component.load_lists(pool).await?, and after a deletion the
\* adjustment of the selection
LoopReloadAnswers ==
    /\ pc = "reload"
    /\ \E f \in MayFail({"none", "reload"}) :
          LET r == load_lists(lists_component, Db, f) IN
          /\ lists_component' =
                 IF last.op = "delete_list" /\ r.res = "Ok"
                 THEN [r.lc EXCEPT !.list_state =
                          delete_selection(@, Unwrap(@), Len(r.lc.lists))]
                 ELSE r.lc
          /\ last' = Last(last.op, IF r.res = "Err" THEN f ELSE "none", r.res)
          /\ faults' = IF r.res = "Err" THEN faults + 1 ELSE faults
    /\ pc' = "draw"
    /\ UNCHANGED storage
    /\ MainFrame

\* a key whose handler awaits nothing
LoopSelectNext ==
    /\ Reading
    /\ lists_component' = select_next(lists_component)
    /\ last' = Last("select_next", "none", "Ok")
    /\ pc' = "draw"
    /\ UNCHANGED <<storage, faults>>
    /\ MainFrame

\* an event that is no key press, or a key without a binding
LoopIgnored ==
    /\ Reading
    /\ last' = Last("ignored", "none", "Ok")
    /\ pc' = "draw"
    /\ UNCHANGED <<lists_component, storage, faults>>
    /\ MainFrame

\* the key that sets exit: the condition of the while loop ends the run
LoopQuit ==
    /\ Reading
    /\ exit' = TRUE
    /\ last' = Last("quit", "none", "Ok")
    /\ pc' = "done"
    /\ UNCHANGED <<current_screen, input_state, config, current_db_config, pool,
                   selected_db_index, lists_component, storage, faults>>

\* terminal.draw(..)? or event::read()? fails: run returns the error
LoopIoError ==
    /\ pc \in {"draw", "key"}
    /\ faults < MaxFaults
    /\ faults' = faults + 1
    /\ last' = Last("run", "io", "Err")
    /\ pc' = "done"
    /\ UNCHANGED <<lists_component, storage>>
    /\ MainFrame

NextLoop ==
    \/ Draw
    \/ LoopCreateList \/ LoopDeleteList \/ LoopWriteAnswers \/ LoopReloadAnswers
    \/ LoopSelectNext \/ LoopIgnored \/ LoopQuit
    \/ LoopIoError

SpecLoop == InitMain /\ [][NextLoop]_vars

-----------------------------------------------------------------------------
(* refresh_lists alone: the lists in memory with a selection among them, a  *)
(* database that may have changed under them (a write whose reload failed,  *)
(* or another process writing the file), and the reload applied to them.    *)

\* the databases of at most n lists without items
RECURSIVE DbsOfLists(_)
DbsOfLists(n) ==
    IF n = 0 THEN {EmptyDb}
    ELSE DbsOfLists(n - 1)
         \cup {TodoList_create(db, name) :
                  db \in {d \in DbsOfLists(n - 1) : Cardinality(d.lists) = n - 1},
                  name \in Names}

\* a handler that calls ListsComponent::refresh_lists
Refresh ==
    /\ OnMain
    /\ \E f \in MayFail({"none", "reload"}) :
          Handled("refresh_lists", f, refresh_lists(lists_component, Db, f))
    /\ MainFrame

InitRefresh ==
    /\ pc = "key"
    /\ current_screen = "Main"
    /\ input_state = InputStateDefault
    /\ config = DefaultConfig
    /\ current_db_config = DefaultDBConfig
    /\ pool = DefaultDBConfig.connection_str
    /\ selected_db_index = 0
    /\ exit = FALSE
    /\ \E db \in DbsOfLists(MaxLists) : storage = (DefaultDBConfig.connection_str :> db)
    /\ \E shown \in DbsOfLists(MaxLists) :
          \E sel \in {None} \cup {Some(i) : i \in 0..(Cardinality(shown.lists) - 1)} :
             lists_component = [lists |-> UIList_get_all(shown), list_state |-> sel]
    /\ faults = 0
    /\ last = Last("new", "none", "Ok")

NextRefresh == Draw \/ Refresh

SpecRefresh == InitRefresh /\ [][NextRefresh]_vars

-----------------------------------------------------------------------------
(* C1: under every sequence of add_char, remove_char_before_cursor,        *)
(* delete_char_after_cursor, move_cursor_left, move_cursor_right and clear  *)
(* on an editor that starts with a valid cursor, the cursor position stays  *)
(* within 0..char_count(text) after every step, and no operation panics.    *)
C1_CursorInBounds ==
    /\ pc # "panicked"
    /\ input_state.cursor_pos >= 0
    /\ input_state.cursor_pos <= char_count(input_state.current_input)

\* a multi-byte character was added at the end of a full text: the cursor is at
\* its upper limit, past characters of different widths
C1_Witness ==
    /\ last.op = "add_char"
    /\ input_state.cursor_pos = MaxTextLen
    /\ char_count(input_state.current_input) = MaxTextLen
    /\ Len(input_state.current_input) > MaxTextLen

-----------------------------------------------------------------------------
(* Properties of the switch between databases (Spec).                       *)

\* the step is a switch_to_selected_db that failed in the call f
SwitchFailed(f) ==
    /\ pc = "key"
    /\ last'.op = "switch_to_selected_db"
    /\ last'.res = "Err"
    /\ last'.f = f

(* C3: when switch_to_selected_db fails to open the connection to the       *)
(* selected database, current_screen, current_db_config, the pool and the   *)
(* lists in memory with the list selection and the item selections are the  *)
(* same as before the attempt.                                              *)
C3_ConnectionFailureKeepsState ==
    [][SwitchFailed("connect")
         => UNCHANGED <<current_screen, current_db_config, pool, lists_component>>]_vars

\* the connection to another database than the current one failed, with a list
\* of the current database loaded and selected
C3_Witness ==
    /\ last = Last("switch_to_selected_db", "connect", "Err")
    /\ current_screen = "ChangeDB"
    /\ selected_db_index < Len(config.dbs)
    /\ config.dbs[selected_db_index + 1] # current_db_config
    /\ Len(lists_component.lists) > 0
    /\ IsSome(lists_component.list_state)

(* C4 as stated: when the connection to the selected database is opened but *)
(* loading its lists fails, current_db_config, the pool and lists_component *)
(* still hold the values of the previous database.                          *)
C4_LoadFailureKeepsPrevious ==
    [][SwitchFailed("load")
         => UNCHANGED <<current_db_config, pool, lists_component>>]_vars

-----------------------------------------------------------------------------
(* Properties of the components (SpecMain).                                 *)

InBounds(sel, n) == IsSome(sel) => Unwrap(sel) >= 0 /\ Unwrap(sel) < n

\* every selection is None or an index of its collection
SelectionsInBounds ==
    /\ InBounds(lists_component.list_state, Len(lists_component.lists))
    /\ \A k \in 1..Len(lists_component.lists) :
          InBounds(lists_component.lists[k].item_state, Len(lists_component.lists[k].items))

\* the lists and items in memory, without the item selections
View(lists) == [k \in 1..Len(lists) |-> [list |-> lists[k].list, items |-> lists[k].items]]

\* the lists and items in memory are those of the connected database, in its order
InSync(lc, db) == View(lc.lists) = View(UIList_get_all(db))

ListCommands == {"create_list", "update_list", "delete_list", "move_list_up", "move_list_down"}
ItemCommands == {"create_item", "update_item", "delete_item", "move_item_up", "move_item_down"}
NavigationCommands == {"select_next", "select_previous", "select_next_item",
                       "select_previous_item", "select_first_item", "remove_item_selection"}

(* C2 as stated: after every command handled on the Main screen the list    *)
(* selection and the item selection of every list are None or an index of   *)
(* their collection.                                                        *)
C2_AfterEveryCommand ==
    (pc = "draw" /\ last.op \in ListCommands \cup ItemCommands \cup NavigationCommands)
        => SelectionsInBounds

(* C2 for the states in which a command starts: App::run has drawn the frame *)
(* that follows the command before, on list areas that are not empty, and   *)
(* the list selection and the item selection of every list are None or an   *)
(* index of their collection, so that no handler indexes out of bounds.     *)
C2_InBoundsWhenHandled ==
    /\ pc # "panicked"
    /\ pc = "key" => SelectionsInBounds

\* the frame drawn after select_next on the last list brought the selection back
C2_Witness ==
    /\ pc = "key"
    /\ last = Last("draw", "none", "Corrected")
    /\ Len(lists_component.lists) = MaxLists
    /\ lists_component.list_state = Some(MaxLists - 1)


\* the state before the step: a command of the Main screen is about to be handled
Handling(ops) == pc = "key" /\ last'.op \in ops

\* the selected list before the step and the same list after it
SelList == lists_component.lists[SelectedListIndex(lists_component)]
SelListAfter == lists_component'.lists[SelectedListIndex(lists_component)]

\* the command acts: a list command other than create needs a selected list, an
\* item command a selected list and, other than create, a selected item
ListCommandActs ==
    /\ Handling(ListCommands)
    /\ last'.op # "create_list" => IsSome(lists_component.list_state)
ItemCommandActs ==
    /\ Handling(ItemCommands \cup {"toggle_item_done"})
    /\ SelectedListIndex(lists_component) # 0
    /\ last'.op # "create_item" => IsSome(SelList.item_state)

(* C5 as stated: when a persistence call of create, rename, delete, move up *)
(* or move down (lists or items) fails, the write or the reload after it,   *)
(* the collection in memory and the selection are unchanged and the         *)
(* collection in memory still equals the persisted one.                     *)
C5_FailureKeepsViewInSync ==
    [][(/\ Handling(ListCommands \cup ItemCommands)
        /\ last'.res = "Err"
        /\ InSync(lists_component, storage[pool]))
         => /\ lists_component' = lists_component
            /\ InSync(lists_component', storage'[pool])]_vars

(* C6: after every successful create, rename, delete, move up or move down  *)
(* the collection in memory that the command acts on (all lists with their  *)
(* items for a list command, the items of the selected list for an item     *)
(* command) equals, in ids, names and order, the one persisted when the     *)
(* command returns.                                                         *)
C6_SuccessReloads ==
    [][/\ (ListCommandActs /\ last'.res = "Ok")
          => View(lists_component'.lists) = View(UIList_get_all(storage'[pool]))
       /\ (ItemCommandActs /\ last'.op \in ItemCommands /\ last'.res = "Ok")
          => SelListAfter.items = ItemsInOrder(storage'[pool], SelList.list.id)]_vars

\* list 2 was moved above list 1 and is shown first, as persisted
C6_Witness ==
    /\ last = Last("move_list_up", "none", "Ok")
    /\ Len(lists_component.lists) = 2
    /\ lists_component.lists[1].list.id = 2
    /\ lists_component.list_state = Some(0)
    /\ SortByPosition(storage[pool].lists)[1].id = 2

\* the selection a deletion at index i of n entities yields, as C7 states it
DeletionRule(i, n) == IF n = 1 THEN None ELSE IF i = n - 1 THEN Some(n - 2) ELSE Some(i)

\* what C7 asks of one step
DeletionFollowsRule ==
       /\ (ListCommandActs /\ last'.op = "delete_list" /\ last'.res = "Ok")
          => LET i == Unwrap(lists_component.list_state)
                 n == Len(lists_component.lists)
             IN  /\ lists_component'.list_state = DeletionRule(i, n)
                 /\ i < n - 1 => /\ Len(lists_component'.lists) > i
                                 /\ lists_component'.lists[i + 1].list.id
                                        = lists_component.lists[i + 2].list.id
       /\ (ItemCommandActs /\ last'.op = "delete_item" /\ last'.res = "Ok")
          => LET j == Unwrap(SelList.item_state)
                 n == Len(SelList.items)
             IN  /\ SelListAfter.item_state = DeletionRule(j, n)
                 /\ j < n - 1 => /\ Len(SelListAfter.items) > j
                                 /\ SelListAfter.items[j + 1].id = SelList.items[j + 2].id

(* C7 as stated: deleting the selected entity at index i of an N-entity     *)
(* collection (lists or items) yields selection None if N = 1, N-2 if       *)
(* i = N-1 and N > 1, and otherwise i, which then points at the entity that *)
(* followed the deleted one.                                                *)
C7_DeletionSelection == [][DeletionFollowsRule]_vars

\* C7 for the steps that start with the lists in memory equal to the persisted ones
C7_InSync ==
    [][InSync(lists_component, storage[pool]) => DeletionFollowsRule]_vars

\* what C8 asks of one step
SelectionFollowsMove ==
       /\ (ListCommandActs /\ last'.op \in {"move_list_up", "move_list_down"}
                           /\ last'.res = "Ok")
          => LET i == Unwrap(lists_component.list_state)
                 n == Len(lists_component.lists)
                 t == IF last'.op = "move_list_up" THEN i - 1 ELSE i + 1
             IN  (t >= 0 /\ t < n)
                    => /\ lists_component'.list_state = Some(t)
                       /\ Len(lists_component'.lists) = n
                       /\ lists_component'.lists[t + 1].list.id
                              = lists_component.lists[i + 1].list.id
                       /\ lists_component'.lists[i + 1].list.id
                              = lists_component.lists[t + 1].list.id
       /\ (ItemCommandActs /\ last'.op \in {"move_item_up", "move_item_down"}
                           /\ last'.res = "Ok")
          => LET j == Unwrap(SelList.item_state)
                 n == Len(SelList.items)
                 t == IF last'.op = "move_item_up" THEN j - 1 ELSE j + 1
             IN  (t >= 0 /\ t < n)
                    => /\ SelListAfter.item_state = Some(t)
                       /\ Len(SelListAfter.items) = n
                       /\ SelListAfter.items[t + 1].id = SelList.items[j + 1].id
                       /\ SelListAfter.items[j + 1].id = SelList.items[t + 1].id

(* C8 as stated: after a successful move up of the entity selected at index *)
(* i > 0 the selection is i-1, after a successful move down of the entity   *)
(* selected at index i with i+1 < length it is i+1, and the entity under    *)
(* the selection is the one selected before, having swapped places with its *)
(* neighbour.                                                               *)
C8_SelectionFollowsMove == [][SelectionFollowsMove]_vars

\* C8 for the steps that start with the lists in memory equal to the persisted ones
C8_InSync ==
    [][InSync(lists_component, storage[pool]) => SelectionFollowsMove]_vars

\* the ids of a collection, in order
ListIds(lists) == [k \in 1..Len(lists) |-> lists[k].list.id]
ItemIds(items) == [k \in 1..Len(items) |-> items[k].id]

\* what C9 asks of one step
BoundaryMoveIsNoOp ==
       /\ (/\ ListCommandActs
           /\ \/ last'.op = "move_list_up" /\ lists_component.list_state = Some(0)
              \/ /\ last'.op = "move_list_down"
                 /\ lists_component.list_state = Some(Len(lists_component.lists) - 1))
          => /\ ListIds(lists_component'.lists) = ListIds(lists_component.lists)
             /\ lists_component'.list_state = lists_component.list_state
       /\ (/\ ItemCommandActs
           /\ \/ last'.op = "move_item_up" /\ SelList.item_state = Some(0)
              \/ /\ last'.op = "move_item_down"
                 /\ SelList.item_state = Some(Len(SelList.items) - 1))
          => /\ ItemIds(SelListAfter.items) = ItemIds(SelList.items)
             /\ SelListAfter.item_state = SelList.item_state

(* C9 as stated: moving the entity at index 0 up, or the entity at the last *)
(* index down, changes neither the order of the collection nor the          *)
(* selection index, for lists and for items.                                *)
C9_BoundaryMoveIsNoOp == [][BoundaryMoveIsNoOp]_vars

\* C9 for the steps that start with the lists in memory equal to the persisted ones
C9_InSync ==
    [][InSync(lists_component, storage[pool]) => BoundaryMoveIsNoOp]_vars

\* what C10 asks of one step
RenameAndToggleKeepPlace ==
       /\ (ListCommandActs /\ last'.op = "update_list")
          => /\ lists_component'.list_state = lists_component.list_state
             /\ ListIds(lists_component'.lists) = ListIds(lists_component.lists)
       /\ (ItemCommandActs /\ last'.op \in {"update_item", "toggle_item_done"})
          => /\ SelListAfter.item_state = SelList.item_state
             /\ ItemIds(SelListAfter.items) = ItemIds(SelList.items)

(* C10 as stated: rename of the selected list or item and toggle-done of    *)
(* the selected item leave the selection index of their collection, its     *)
(* order and its size unchanged.                                            *)
C10_RenameAndToggleKeepPlace == [][RenameAndToggleKeepPlace]_vars

\* C10 for the steps that start with the lists in memory equal to the persisted ones
C10_InSync ==
    [][InSync(lists_component, storage[pool]) => RenameAndToggleKeepPlace]_vars

-----------------------------------------------------------------------------
(* Properties of create, of the commands without a selection and of         *)
(* select_first_item (SpecMain).                                            *)

\* what C11 asks of one step
CreateAddsOneAtEnd ==
       /\ (Handling({"create_list"}) /\ last'.res = "Ok")
          => LET n == Len(lists_component.lists) IN
             /\ Len(lists_component'.lists) = n + 1
             /\ SubSeq(ListIds(lists_component'.lists), 1, n) = ListIds(lists_component.lists)
             /\ \A k \in 1..n : lists_component'.lists[n + 1].list.id
                                    # lists_component.lists[k].list.id
             /\ lists_component'.list_state = lists_component.list_state
       /\ (Handling({"create_item"}) /\ SelectedListIndex(lists_component) # 0
                                     /\ last'.res = "Ok")
          => LET n == Len(SelList.items) IN
             /\ Len(SelListAfter.items) = n + 1
             /\ SubSeq(ItemIds(SelListAfter.items), 1, n) = ItemIds(SelList.items)
             /\ \A k \in 1..n : SelListAfter.items[n + 1].id # SelList.items[k].id
             /\ SelListAfter.item_state = SelList.item_state
             /\ lists_component'.list_state = lists_component.list_state

(* C11 as stated: a successful create of a list, or of an item in the       *)
(* selected list, adds exactly one entity after all existing entities of    *)
(* that collection, keeps the order of the existing ones and leaves the     *)
(* selection index unchanged.                                               *)
C11_CreateAddsOneAtEnd == [][CreateAddsOneAtEnd]_vars

\* C11 for the steps that start with the lists in memory equal to the persisted ones
C11_InSync ==
    [][InSync(lists_component, storage[pool]) => CreateAddsOneAtEnd]_vars

\* the step is a rename, delete or move of a list with no list selected, or a
\* rename, delete, move or toggle of an item with no list or no item selected
NothingSelected ==
    \/ /\ Handling(ListCommands \ {"create_list"})
       /\ ~IsSome(lists_component.list_state)
    \/ /\ Handling((ItemCommands \ {"create_item"}) \cup {"toggle_item_done"})
       /\ \/ SelectedListIndex(lists_component) = 0
          \/ ~IsSome(SelList.item_state)

(* C12: with nothing selected, rename, delete, move up and move down of a   *)
(* list or an item and toggle-done of an item make no persistence call (the *)
(* storage is unchanged and no call can fail), leave the lists in memory    *)
(* and the selections unchanged, and return success.                        *)
C12_NothingSelectedIsNoOp ==
    [][NothingSelected => /\ lists_component' = lists_component
                          /\ storage' = storage
                          /\ faults' = faults
                          /\ last'.res = "Ok"]_vars

\* a delete was handled with two lists loaded and no list selected
C12_Witness ==
    /\ last = Last("delete_list", "none", "Ok")
    /\ Len(lists_component.lists) = 2
    /\ ~IsSome(lists_component.list_state)
    /\ Cardinality(storage[pool].lists) = 2

(* C20: select_first_item changes the item selection only when it is None   *)
(* (it then selects index 0); an item selection that is set is left exactly *)
(* as it was.                                                               *)
C20_SelectFirstOnlyFromNone ==
    [][(Handling({"select_first_item"}) /\ SelectedListIndex(lists_component) # 0)
         => /\ SelListAfter.item_state = IF IsSome(SelList.item_state)
                                         THEN SelList.item_state ELSE Some(0)
            /\ SelListAfter.items = SelList.items
            /\ lists_component'.list_state = lists_component.list_state]_vars

\* select_first_item was handled with the second of two items selected
C20_Witness ==
    /\ last = Last("select_first_item", "none", "Ok")
    /\ SelectedListIndex(lists_component) # 0
    /\ Len(lists_component.lists[SelectedListIndex(lists_component)].items) = 2
    /\ lists_component.lists[SelectedListIndex(lists_component)].item_state = Some(1)

-----------------------------------------------------------------------------
(* Properties of the popups that take a name (Spec).                        *)

(* C13: on Main, enter_add_item_screen with no list selected leaves the     *)
(* screen at Main and the input state unchanged; with a list selected it    *)
(* moves to AddItem with an empty text, cursor 0 and is_modifying false.    *)
C13_AddItemNeedsSelectedList ==
    [][(Handling({"enter_add_item_screen"}) /\ current_screen = "Main")
         => IF IsSome(lists_component.list_state)
            THEN /\ current_screen' = "AddItem"
                 /\ input_state' = [current_input |-> <<>>, cursor_pos |-> 0,
                                    is_modifying |-> FALSE]
            ELSE /\ current_screen' = "Main"
                 /\ input_state' = input_state]_vars

\* the key was handled with no list selected, after a rename popup had left
\* is_modifying set: the screen is still Main and the input state as it was
C13_Witness ==
    /\ last.op = "enter_add_item_screen"
    /\ current_screen = "Main"
    /\ ~IsSome(lists_component.list_state)
    /\ input_state.is_modifying

(* C14: enter_modify_item_screen moves to ModifyItem only when a list is    *)
(* selected and an item of that list is selected, and then the text of the  *)
(* editor is the name of the selected item and is_modifying is true; with   *)
(* no list or no item selected the screen and the input state are unchanged.*)
C14_ModifyItemNeedsSelectedItem ==
    [][Handling({"enter_modify_item_screen"})
         => /\ pc' # "panicked"
            /\ IF /\ SelectedListIndex(lists_component) # 0
                  /\ IsSome(SelList.item_state)
               THEN /\ current_screen' = "ModifyItem"
                    /\ input_state'.current_input
                           = SelList.items[Unwrap(SelList.item_state) + 1].name
                    /\ input_state'.is_modifying
               ELSE /\ current_screen' = current_screen
                    /\ input_state' = input_state]_vars

\* the popup was opened on an item whose name differs from the name of its list
C14_Witness ==
    /\ last.op = "enter_modify_item_screen"
    /\ current_screen = "ModifyItem"
    /\ SelectedListIndex(lists_component) # 0
    /\ LET ul == lists_component.lists[SelectedListIndex(lists_component)] IN
       /\ IsSome(ul.item_state)
       /\ input_state.current_input = ul.items[Unwrap(ul.item_state) + 1].name
       /\ input_state.current_input # ul.list.name

(* C15: Esc on AddList, ModifyList, AddItem or ModifyItem returns to Main   *)
(* with the text of the editor empty and the cursor 0, makes no persistence *)
(* call, and leaves the lists, their items and both selections unchanged.   *)
C15_DiscardLeavesCollections ==
    [][Handling({"exit_add_or_modify_list_without_saving", "exit_add_item_without_saving"})
         => /\ current_screen' = "Main"
            /\ input_state'.current_input = <<>>
            /\ input_state'.cursor_pos = 0
            /\ storage' = storage
            /\ faults' = faults
            /\ last'.res = "Ok"
            /\ lists_component' = lists_component]_vars

\* a rename popup of an item was discarded with a list and an item selected
C15_Witness ==
    /\ last.op = "exit_add_item_without_saving"
    /\ current_screen = "Main"
    /\ input_state.is_modifying
    /\ SelectedListIndex(lists_component) # 0
    /\ IsSome(lists_component.lists[SelectedListIndex(lists_component)].item_state)

-----------------------------------------------------------------------------
(* Properties of the editing operations on the characters of the text       *)
(* (SpecCursor): each holds of the operation applied to every editor state  *)
(* that the operations reach from a valid one.                              *)

\* the character sequence cs with c inserted at index p, and without the
\* character at index p
InsertAt(cs, p, c) == SubSeq(cs, 1, p) \o <<c>> \o SubSeq(cs, p + 1, Len(cs))
RemoveAt(cs, p) == SubSeq(cs, 1, p) \o SubSeq(cs, p + 2, Len(cs))

(* C16: add_char(c) at a valid cursor p, for a character of any width in a  *)
(* text of characters of any widths, gives the old character sequence with  *)
(* c inserted at index p (the others kept in order, one more in all) and    *)
(* the cursor p + 1, without a panic.                                       *)
C16_AddCharInserts ==
    \A c \in Chars :
        LET s2 == add_char(input_state, c)
            p == input_state.cursor_pos
        IN  /\ ~add_char_panics(input_state, c)
            /\ chars(s2.current_input) = InsertAt(chars(input_state.current_input), p, c)
            /\ Len(chars(s2.current_input)) = Len(chars(input_state.current_input)) + 1
            /\ s2.cursor_pos = p + 1

\* a two-byte character was added between a three-byte and a one-byte one
C16_Witness ==
    /\ last.op = "add_char"
    /\ chars(input_state.current_input) = <<"euro", "eacute", "a">>
    /\ input_state.cursor_pos = 2

(* C17: remove_char_before_cursor changes nothing when the cursor is 0;     *)
(* otherwise it removes the character at index cursor - 1, whatever the     *)
(* widths of that character and of those before it, keeps the others in     *)
(* order and moves the cursor back by 1.                                    *)
C17_BackspaceRemovesBefore ==
    LET s2 == remove_char_before_cursor(input_state)
        p == input_state.cursor_pos
    IN  IF p = 0 THEN s2 = input_state
        ELSE /\ ~remove_char_before_cursor_panics(input_state)
             /\ chars(s2.current_input) = RemoveAt(chars(input_state.current_input), p - 1)
             /\ s2.cursor_pos = p - 1

\* the second of three characters was removed, after a three-byte character
C17_Witness ==
    /\ last.op = "remove_char_before_cursor"
    /\ chars(input_state.current_input) = <<"euro", "eacute">>
    /\ input_state.cursor_pos = 1

(* C18: delete_char_after_cursor changes nothing when the cursor is at      *)
(* char_count(text); otherwise it removes the character at index cursor,    *)
(* keeps the others in order and leaves the cursor where it was.            *)
C18_DeleteRemovesAfter ==
    LET s2 == delete_char_after_cursor(input_state)
        p == input_state.cursor_pos
    IN  IF p = char_count(input_state.current_input) THEN s2 = input_state
        ELSE /\ chars(s2.current_input) = RemoveAt(chars(input_state.current_input), p)
             /\ s2.cursor_pos = p

\* the second of three characters was deleted, after a two-byte character
C18_Witness ==
    /\ last.op = "delete_char_after_cursor"
    /\ chars(input_state.current_input) = <<"eacute", "euro">>
    /\ input_state.cursor_pos = 1

-----------------------------------------------------------------------------
(* Properties of refresh_lists (SpecRefresh).                               *)

\* the selection C19 states for a previous selection sel and n reloaded lists
RefreshRule(sel, n) ==
    IF ~IsSome(sel) THEN None
    ELSE IF Unwrap(sel) < n THEN sel
    ELSE IF n > 0 THEN Some(n - 1)
    ELSE None

\* the step is a refresh_lists that succeeded
Refreshed == Handling({"refresh_lists"}) /\ last'.res = "Ok"

(* C19 as stated: refresh_lists with a previous list selection p and a      *)
(* reloaded collection of length n sets the selection to p if p < n, to     *)
(* n - 1 if p >= n and n > 0, and to None if n = 0; with no previous        *)
(* selection it leaves the selection None.                                  *)
C19_RefreshRepairsSelection ==
    [][Refreshed => lists_component'.list_state
                       = RefreshRule(lists_component.list_state,
                                     Len(lists_component'.lists))]_vars

\* C19 for the reloads that find a list, and for those without a selection
C19_WhenNotEmptied ==
    [][(Refreshed /\ (Len(lists_component'.lists) > 0
                         \/ ~IsSome(lists_component.list_state)))
          => lists_component'.list_state
                 = RefreshRule(lists_component.list_state,
                               Len(lists_component'.lists))]_vars

\* C19 for the reloads that find no list: the previous selection stays as it was
C19_WhenEmptied ==
    [][(Refreshed /\ Len(lists_component'.lists) = 0)
          => lists_component'.list_state = lists_component.list_state]_vars

-----------------------------------------------------------------------------
(* Properties of the database screens (Spec).                               *)

\* the step is the handling of op on the screen scr with the result res
AppStep(scr, op, res) ==
    /\ pc = "key"
    /\ current_screen = scr
    /\ last'.op = op
    /\ last'.res = res

\* no list and no item of the component is selected
NoSelection(lc) ==
    /\ lc.list_state = None
    /\ \A k \in 1..Len(lc.lists) : lc.lists[k].item_state = None

(* C21: a successful switch_to_selected_db makes the database at            *)
(* selected_db_index the current database, replaces the lists in memory by  *)
(* the lists loaded from that database, leaves no list and no item selected *)
(* and sets the screen to Main.                                             *)
C21_SuccessfulSwitch ==
    [][AppStep("ChangeDB", "switch_to_selected_db", "Ok")
         => /\ selected_db_index < Len(config.dbs)
            /\ current_db_config' = config.dbs[selected_db_index + 1]
            /\ pool' = config.dbs[selected_db_index + 1].connection_str
            /\ InSync(lists_component', storage'[pool'])
            /\ NoSelection(lists_component')
            /\ current_screen' = "Main"]_vars

\* the switch went from a database whose list was selected to another database
\* that holds a list
C21_Witness ==
    /\ last = Last("switch_to_selected_db", "none", "Ok")
    /\ pc = "draw"
    /\ current_db_config # DefaultDBConfig
    /\ Len(lists_component.lists) > 0
    /\ storage[DefaultDBConfig.connection_str].lists # {}

(* C22: set_selected_db_as_default makes the database at selected_db_index  *)
(* the configured default and changes nothing else: the screen stays        *)
(* ChangeDB, and the current database, the connection, the configured       *)
(* databases, selected_db_index and the loaded lists are unchanged.         *)
C22_SetDefaultFrame ==
    [][(pc = "key" /\ last'.op = "set_selected_db_as_default")
         => /\ selected_db_index < Len(config.dbs)
            /\ config'.default = config.dbs[selected_db_index + 1].name
            /\ config'.dbs = config.dbs
            /\ current_screen = "ChangeDB"
            /\ UNCHANGED <<current_screen, current_db_config, pool, selected_db_index,
                           lists_component, input_state, exit, storage>>]_vars

\* another database than the current one became the default, with a list loaded
C22_Witness ==
    /\ last = Last("set_selected_db_as_default", "none", "Ok")
    /\ current_screen = "ChangeDB"
    /\ config.default # DefaultDbName
    /\ config.default # current_db_config.name
    /\ config.default = config.dbs[selected_db_index + 1].name
    /\ Len(lists_component.lists) > 0

(* C23 as stated: immediately after enter_add_db_screen, entered from       *)
(* ChangeDB, the editor text is empty, the cursor is 0 and is_modifying is  *)
(* false, whatever screens and edits came before.                           *)
C23_EnterAddDbResetsEditor ==
    [][AppStep("ChangeDB", "enter_add_db_screen", "Ok")
         => /\ current_screen' = "AddDB"
            /\ input_state' = InputStateDefault]_vars

\* C23 for the text and the cursor alone: every way to the ChangeDB screen has
\* cleared them, and enter_add_db_screen leaves the editor as it finds it
C23_TextEmptyOnEntry ==
    [][AppStep("ChangeDB", "enter_add_db_screen", "Ok")
         => /\ current_screen' = "AddDB"
            /\ input_state' = input_state
            /\ input_state'.current_input = <<>>
            /\ input_state'.cursor_pos = 0]_vars

-----------------------------------------------------------------------------
(* Properties of the name popups (Spec).                                    *)

\* is_modifying agrees with the screen
IsModifyingMatchesScreen ==
    /\ current_screen \in {"AddList", "AddItem"} => ~input_state.is_modifying
    /\ current_screen \in {"ModifyList", "ModifyItem"} => input_state.is_modifying

\* the step opens a name popup from Main with the editor the screen calls for
PopupEnteredAsStated ==
    (pc = "key" /\ current_screen = "Main" /\ current_screen' # "Main")
        => /\ current_screen' \in {"AddList", "AddItem"}
              => input_state' = InputStateDefault
           /\ current_screen' = "ModifyList"
              => /\ IsSome(lists_component.list_state)
                 /\ input_state' = [current_input |-> SelList.list.name, cursor_pos |-> 0,
                                    is_modifying |-> TRUE]
           /\ current_screen' = "ModifyItem"
              => /\ SelectedListIndex(lists_component) # 0
                 /\ IsSome(SelList.item_state)
                 /\ input_state' = [current_input |->
                                        SelList.items[Unwrap(SelList.item_state) + 1].name,
                                    cursor_pos |-> 0, is_modifying |-> TRUE]
           /\ input_state'.cursor_pos \in 0..char_count(input_state'.current_input)

(* C24: in every reachable state is_modifying is false on AddList and       *)
(* AddItem and true on ModifyList and ModifyItem; AddList and AddItem are   *)
(* entered with the empty editor, ModifyList and ModifyItem with the name   *)
(* of the selected list or item and a cursor in [0, char_count(text)].      *)
C24_IsModifyingTellsCreateFromRename ==
    /\ []IsModifyingMatchesScreen
    /\ [][PopupEnteredAsStated]_vars

\* the rename popup of an item, opened after an add popup was used, holds the
\* item's name; the name of its list is another
C24_Witness ==
    /\ last = Last("enter_modify_item_screen", "none", "Ok")
    /\ current_screen = "ModifyItem"
    /\ input_state.is_modifying
    /\ SelectedListIndex(lists_component) # 0
    /\ IsSome(SelList.item_state)
    /\ input_state.current_input = SelList.items[Unwrap(SelList.item_state) + 1].name
    /\ input_state.current_input # SelList.list.name

-----------------------------------------------------------------------------
(* Properties of the database registry (Spec).                              *)

\* the step is a create_new_database or a set_selected_db_as_default that
\* failed in one of the calls of fs
RegistryCommandFailed(fs) ==
    /\ pc = "key"
    /\ last'.op \in {"create_new_database", "set_selected_db_as_default"}
    /\ last'.res = "Err"
    /\ last'.f \in fs

(* C25 as stated: when create_new_database or set_selected_db_as_default    *)
(* fails (directory lookup, database initialisation or registry write),     *)
(* config.dbs, config.default and selected_db_index are the same as before  *)
(* the call.                                                                *)
C25_RegistryFailureKeepsState ==
    [][RegistryCommandFailed({"data_dir", "init", "write"})
         => UNCHANGED <<config, selected_db_index>>]_vars

\* C25 for the failures before the registry is touched (directory lookup and
\* database initialisation), and for selected_db_index after every failure
C25_EarlyFailureKeepsState ==
    [][/\ RegistryCommandFailed({"data_dir", "init"})
            => UNCHANGED <<config, selected_db_index>>
       /\ RegistryCommandFailed({"data_dir", "init", "write"})
            => UNCHANGED selected_db_index]_vars

\* C25 for the failed registry write: the change of config is already made
C25_WriteFailureKeepsChange ==
    [][RegistryCommandFailed({"write"})
         => IF last'.op = "set_selected_db_as_default"
            THEN /\ config'.default = config.dbs[selected_db_index + 1].name
                 /\ config'.dbs = config.dbs
            ELSE /\ Len(config'.dbs) = Len(config.dbs) + 1
                 /\ config'.dbs[Len(config'.dbs)].name = input_state.current_input
                 /\ config'.default \in {config.default, input_state.current_input}]_vars

\* the index of the first database of that name, 0 without one
FirstNamed(dbs, name) ==
    LET named == {k \in 1..Len(dbs) : dbs[k].name = name}
    IN  IF named = {} THEN 0
        ELSE (CHOOSE k \in named : \A m \in named : k <= m) - 1

(* C26: enter_change_db_screen sets the screen to ChangeDB and              *)
(* selected_db_index to the index of the first configured database whose    *)
(* name is the current database's name, or to 0 when no configured database *)
(* has that name; it changes nothing else.                                  *)
C26_EnterChangeDb ==
    [][AppStep("Main", "enter_change_db_screen", "Ok")
         => /\ current_screen' = "ChangeDB"
            /\ selected_db_index' = FirstNamed(config.dbs, current_db_config.name)
            /\ UNCHANGED <<input_state, lists_component, config, current_db_config,
                           pool, exit, storage>>]_vars

\* the current database was switched to at index 2 and its name is registered
\* at index 1 too: the ChangeDB screen opens on index 1
C26_Witness ==
    /\ last = Last("enter_change_db_screen", "none", "Ok")
    /\ current_screen = "ChangeDB"
    /\ Len(config.dbs) = 3
    /\ config.dbs[2].name = current_db_config.name
    /\ config.dbs[3].name = current_db_config.name
    /\ selected_db_index = 1

-----------------------------------------------------------------------------
(* Properties of the positions (SpecPlaced).                                *)

\* the positions are pairwise distinct and form a run of consecutive integers
Dense(positions, count) ==
    /\ Cardinality(positions) = count
    /\ \A p \in positions, q \in positions :
          \A x \in p..q : x \in positions

\* the positions of the stored lists, and of the stored items of each list
StoredPositionsDense(db) ==
    /\ Dense({r.position : r \in db.lists}, Cardinality(db.lists))
    /\ \A r \in db.lists :
          Dense({it.position : it \in ItemsOf(db, r.id)}, Cardinality(ItemsOf(db, r.id)))

\* the positions of the lists in memory, and of the items of each of them
ShownPositionsDense(lc) ==
    /\ Dense({lc.lists[k].list.position : k \in 1..Len(lc.lists)}, Len(lc.lists))
    /\ \A k \in 1..Len(lc.lists) :
          Dense({lc.lists[k].items[j].position : j \in 1..Len(lc.lists[k].items)},
                Len(lc.lists[k].items))

(* C27: after every mutation (create, delete, move up, move down) the       *)
(* positions of the lists, and the positions of the items of each list, are *)
(* pairwise distinct and dense: consecutive integers without gap or         *)
(* duplicate, in the database and in memory.                                *)
C27_PositionsDense ==
    /\ StoredPositionsDense(Db)
    /\ ShownPositionsDense(lists_component)

\* the second of three items was deleted: the item created third took its
\* position
C27_Witness ==
    /\ last = Last("delete_item", "none", "Ok")
    /\ Len(lists_component.lists) = 1
    /\ Len(lists_component.lists[1].items) = 2
    /\ lists_component.lists[1].items[1].id = 1
    /\ lists_component.lists[1].items[2].id = 3
    /\ \E it \in Db.items :
          it.id = 3 /\ it.position = lists_component.lists[1].items[1].position + 1

-----------------------------------------------------------------------------
(* Properties of the event loop (SpecLoop).                                 *)

\* one turn of the loop at a time: a frame, then one event, then its handler
\* through its persistence round trips, then the next frame
OneCommandAtATime ==
    /\ pc = "draw" => pc' \in {"key", "done"} /\ last'.op \in {"draw", "run"}
    /\ pc = "key" => /\ last.op = "draw"
                     /\ last'.op # "draw"
                     /\ pc' \in {"write", "draw", "done"}
    /\ pc = "write" => last'.op = last.op /\ pc' \in {"reload", "draw"}
    /\ pc = "reload" => last'.op = last.op /\ last'.res # "Pending" /\ pc' = "draw"
    /\ last'.res = "Pending" => pc' \in {"write", "reload"}
    /\ ~exit

(* C28: the loop renders, reads at most one key event and runs its handler  *)
(* to completion, every persistence round trip included, before it renders *)
(* and reads again, so that no second command starts while one is          *)
(* outstanding; once exit is set no further key event is handled and the    *)
(* loop has ended.                                                          *)
C28_CommandsSerialised ==
    /\ [][OneCommandAtATime]_vars
    /\ [](exit => pc = "done")
    /\ [](last.res = "Pending" <=> pc \in {"write", "reload"})

\* a second create_list awaits its reload, the first one being complete
C28_Witness ==
    /\ pc = "reload"
    /\ last = Last("create_list", "none", "Pending")
    /\ Len(lists_component.lists) = 1
    /\ Cardinality(Db.lists) = 2
    /\ ~exit

\* the loop has ended on exit, after a command that went through both round trips
C28_Ended ==
    /\ exit
    /\ pc = "done"
    /\ Len(lists_component.lists) > 0

-----------------------------------------------------------------------------
(* Properties of the key routing (Spec).                                    *)

\* the commands of each handler; the editing keys belong to the three handlers
\* of the popups that take a text
MainScreenOps ==
    NavigationCommands
        \cup {"delete_list", "move_list_up", "move_list_down",
              "delete_item", "move_item_up", "move_item_down", "toggle_item_done",
              "enter_add_list_screen", "enter_modify_list_screen",
              "enter_add_item_screen", "enter_modify_item_screen",
              "enter_change_db_screen", "quit"}
ListPopupOps == {"create_list", "update_list", "commit_list",
                 "exit_add_or_modify_list_without_saving"}
ItemPopupOps == {"create_item", "update_item", "commit_item",
                 "exit_add_item_without_saving"}
ChangeDbOps == {"select_next_db", "select_previous_db", "switch_to_selected_db",
                "set_selected_db_as_default", "enter_add_db_screen",
                "exit_change_db_without_saving"}
AddDbOps == {"create_new_database", "commit_db", "exit_add_db_without_saving"}
EditingOps == {"add_char", "remove_char_before_cursor", "delete_char_after_cursor",
               "move_cursor_left", "move_cursor_right"}

\* the screens on which the command op has a binding
ScreensOf(op) ==
    IF op \in MainScreenOps THEN {"Main"}
    ELSE IF op \in ListPopupOps THEN {"AddList", "ModifyList"}
    ELSE IF op \in ItemPopupOps THEN {"AddItem", "ModifyItem"}
    ELSE IF op \in ChangeDbOps THEN {"ChangeDB"}
    ELSE IF op \in AddDbOps THEN {"AddDB"}
    ELSE IF op \in EditingOps THEN TextPopups
    ELSE IF op = "ignored" THEN Screens
    ELSE {}

\* the routing is total and groups the screens as stated: the active screen
\* shares its handler with itself and with its partner, if it has one
RoutingIsTotal ==
    /\ current_screen \in Screens
    /\ \A b \in Screens :
          handle_key_event(current_screen) = handle_key_event(b)
              <=> \/ current_screen = b
                  \/ {current_screen, b} = {"AddList", "ModifyList"}
                  \/ {current_screen, b} = {"AddItem", "ModifyItem"}

\* the key handled in the step ran a command of the active screen's handler,
\* and without a binding it changed nothing
RoutedByScreen ==
    pc = "key"
        => /\ current_screen \in ScreensOf(last'.op)
           /\ last'.op = "ignored" => UNCHANGED <<appvars, input_state>>

(* C29: key routing is total and depends on the active screen only: every   *)
(* screen routes a key event to exactly one handler (Main; AddList and      *)
(* ModifyList share one; AddItem and ModifyItem share one; ChangeDB;        *)
(* AddDB), and a key with no binding on the active screen changes no part   *)
(* of the state.                                                            *)
C29_KeyRoutingTotal ==
    /\ []RoutingIsTotal
    /\ [][RoutedByScreen]_vars

\* a key without a binding was read on the rename popup of an item, with a
\* text in the editor, and a frame of the same screen follows
C29_Witness ==
    /\ last = Last("ignored", "none", "Ok")
    /\ pc = "draw"
    /\ current_screen = "ModifyItem"
    /\ input_state.current_input # <<>>
    /\ input_state.is_modifying

-----------------------------------------------------------------------------
(* Properties of the discard keys (Spec).                                   *)

DiscardOps == {"exit_add_or_modify_list_without_saving", "exit_add_item_without_saving",
               "exit_change_db_without_saving", "exit_add_db_without_saving"}

\* Esc on the active screen
Discard == DiscardListName \/ DiscardItemName \/ DiscardChangeDb \/ DiscardNewDb

\* the screen that Esc leads to
EscTarget(screen) == IF screen = "AddDB" THEN "ChangeDB" ELSE "Main"

\* a discard leads to the screen stated and to the next frame, which keeps the
\* screen; AddDB is entered from ChangeDB only
DiscardStep ==
    /\ (pc = "key" /\ last'.op \in DiscardOps)
          => /\ current_screen # "Main"
             /\ current_screen' = EscTarget(current_screen)
             /\ pc' = "draw"
    /\ pc = "draw" => current_screen' = current_screen /\ pc' = "key"
    /\ (current_screen' = "AddDB" /\ current_screen # "AddDB")
          => current_screen = "ChangeDB"

(* C30: from every screen Main is reached by discard (Esc) alone in at most *)
(* two steps: AddList, ModifyList, AddItem, ModifyItem and ChangeDB go to   *)
(* Main in one step, AddDB goes to ChangeDB and then to Main; AddDB is      *)
(* entered only from ChangeDB and its discard never leads directly to Main. *)
C30_EscReachesMain ==
    /\ []((pc = "key" /\ current_screen # "Main") => ENABLED Discard)
    /\ [][DiscardStep]_vars

\* the first of the two steps from AddDB: the discard of a name that was typed
\* led to ChangeDB, with the editor cleared
C30_Witness ==
    /\ last = Last("exit_add_db_without_saving", "none", "Ok")
    /\ pc = "draw"
    /\ current_screen = "ChangeDB"
    /\ input_state.current_input = <<>>
    /\ Len(config.dbs) = 2

-----------------------------------------------------------------------------
(* Properties of the selection among the databases (SpecDb).                *)

\* the index after i, and before i, on a ring of n databases
RingNext(i, n) == IF i = n - 1 THEN 0 ELSE i + 1
RingPrevious(i, n) == IF i = 0 THEN n - 1 ELSE i - 1

\* selected_db_index is an index of config.dbs, and from it select_next_db and
\* select_previous_db undo each other
DbIndexInRange ==
    Len(config.dbs) > 0
        => /\ selected_db_index \in 0..(Len(config.dbs) - 1)
           /\ select_previous_db(select_next_db(self)) = self
           /\ select_next_db(select_previous_db(self)) = self

\* the step of select_next_db or select_previous_db goes round the ring and
\* changes nothing but the index
DbSelectionStep ==
    (pc = "key" /\ last'.op \in {"select_next_db", "select_previous_db"})
        => /\ selected_db_index'
                 = IF last'.op = "select_next_db"
                   THEN RingNext(selected_db_index, Len(config.dbs))
                   ELSE RingPrevious(selected_db_index, Len(config.dbs))
           /\ UNCHANGED <<current_screen, input_state, lists_component, config,
                          current_db_config, pool, exit, storage>>

(* C31: whenever config.dbs is not empty, selected_db_index < len(config.dbs) *)
(* after any sequence of enter_change_db_screen, select_next_db,            *)
(* select_previous_db and create_new_database; select_next_db and           *)
(* select_previous_db wrap around (last to first, first to last) and are    *)
(* inverses of each other.                                                  *)
C31_DbIndexInRange ==
    /\ []DbIndexInRange
    /\ [][DbSelectionStep]_vars

\* select_next_db went from the last of three databases to the first
C31_Witness ==
    /\ last = Last("select_next_db", "none", "Ok")
    /\ current_screen = "ChangeDB"
    /\ Len(config.dbs) = 3
    /\ selected_db_index = 0

-----------------------------------------------------------------------------
(* Properties of the registry's default (SpecDb).                           *)

\* the databases registered under the default name
DefaultNamed == {k \in 1..Len(config.dbs) : config.dbs[k].name = config.default}

\* no two registered databases have the same name
NamesDistinct ==
    \A k \in 1..Len(config.dbs), m \in 1..Len(config.dbs) :
        config.dbs[k].name = config.dbs[m].name => k = m

(* C32 as stated: after any sequence of successful create_new_database and  *)
(* set_selected_db_as_default calls, from a config where get_default        *)
(* succeeds, exactly one configured database has the name config.default    *)
(* and get_default succeeds.                                                *)
C32_DefaultResolves ==
    faults = 0 => /\ Cardinality(DefaultNamed) = 1
                  /\ get_default(config).res = "Ok"

\* C32 for the registries without a repeated name, and in every registry the
\* default name is the name of a registered database
C32_ResolvesWhileNamesDistinct ==
    /\ DefaultNamed # {}
    /\ NamesDistinct => /\ get_default(config).res = "Ok"
                         /\ get_default(config).db.name = config.default

\* get_default fails on a registry that successful calls alone have built
C32_DefaultAmbiguous ==
    /\ faults = 0
    /\ get_default(config).res = "Err"
    /\ Cardinality(DefaultNamed) = 2

-----------------------------------------------------------------------------
(* Properties of the connected database (SpecDb).                           *)

(* C33: the connected database is always a registered one: in every         *)
(* reachable state some entry of config.dbs has the name and the connection *)
(* string of current_db_config, and the pool is connected to it.            *)
C33_CurrentDbRegistered ==
    /\ \E k \in 1..Len(config.dbs) :
          /\ config.dbs[k].name = current_db_config.name
          /\ config.dbs[k].connection_str = current_db_config.connection_str
    /\ pool = current_db_config.connection_str
    /\ pool \in DOMAIN storage

\* the switch to the third registered database, of another name than the first
\* two, after a call that failed
C33_Witness ==
    /\ last = Last("switch_to_selected_db", "none", "Ok")
    /\ Len(config.dbs) = 3
    /\ current_db_config = config.dbs[3]
    /\ config.dbs[3].name # config.dbs[2].name
    /\ faults = 1

-----------------------------------------------------------------------------
(* Properties of the editor between the popups (Spec).                      *)

-----------------------------------------------------------------------------
(* Properties of the creation of a database (Spec).                         *)

\* create_new_database, called with the name in the editor and with either
\* value of set_as_default, sets the default if and only if it is asked to
DefaultSetIffAsked ==
    (pc = "key" /\ current_screen = "AddDB" /\ input_state.current_input # <<>>)
        => \A set_as_default \in BOOLEAN :
              LET r == create_new_database(self, input_state.current_input,
                                           set_as_default, "none")
              IN  /\ r.res = "Ok"
                  /\ r.app.config.default = IF set_as_default
                                            THEN input_state.current_input
                                            ELSE config.default

\* the step of a successful create_new_database appends the descriptor of the
\* name typed, selects it and keeps the connected database and its lists
CreatedDbStep ==
    AppStep("AddDB", "create_new_database", "Ok")
        => /\ Len(config'.dbs) = Len(config.dbs) + 1
           /\ SubSeq(config'.dbs, 1, Len(config.dbs)) = config.dbs
           /\ config'.dbs[Len(config'.dbs)].name = input_state.current_input
           /\ config'.default \in {config.default, input_state.current_input}
           /\ selected_db_index' = Len(config'.dbs) - 1
           /\ \A file \in DOMAIN storage :
                 file \in DOMAIN storage' /\ storage'[file] = storage[file]
           /\ UNCHANGED <<current_db_config, pool, lists_component, exit>>

(* C35: a successful create_new_database appends exactly one descriptor of  *)
(* the given name at the end of config.dbs (the others and their order      *)
(* unchanged), sets config.default to that name if and only if              *)
(* set_as_default is true, sets selected_db_index to the new last index and *)
(* does not switch databases: current_db_config, the pool and the loaded    *)
(* lists are unchanged.                                                     *)
C35_CreateAppendsAndSelects ==
    /\ []DefaultSetIffAsked
    /\ [][CreatedDbStep]_vars

\* a database was created without becoming the default, with a list loaded
\* from the connected database
C35_Witness ==
    /\ last = Last("create_new_database", "none", "Ok")
    /\ Len(config.dbs) = 2
    /\ selected_db_index = 1
    /\ config.default = DefaultDbName
    /\ current_db_config = DefaultDBConfig
    /\ Len(lists_component.lists) > 0
    /\ config.dbs[2].connection_str \in DOMAIN storage

-----------------------------------------------------------------------------
(* Properties of the editor's round trips (SpecCursor).                     *)

(* C36: for every text, valid cursor position and character c of any UTF-8  *)
(* width, add_char(c) followed by remove_char_before_cursor restores the    *)
(* text and the cursor, and so does add_char(c) followed by                 *)
(* move_cursor_left and delete_char_after_cursor.                           *)
C36_EditingRoundTrips ==
    \A c \in Chars :
        LET added == add_char(input_state, c) IN
        /\ ~add_char_panics(input_state, c)
        /\ added # input_state
        /\ ~remove_char_before_cursor_panics(added)
        /\ remove_char_before_cursor(added) = input_state
        /\ delete_char_after_cursor(move_cursor_left(added)) = input_state

\* a character was typed between a three-byte and a two-byte character and
\* removed again with the backspace
C36_Witness ==
    /\ last.op = "remove_char_before_cursor"
    /\ chars(input_state.current_input) = <<"euro", "eacute">>
    /\ input_state.cursor_pos = 1
    /\ Len(input_state.current_input) = 5
    /\ input_state.is_modifying

====
